---- MODULE Spec2Model ----
(***************************************************************************)
(* Staging-server lifecycle manager of UpServer                            *)
(* (backend/src/services/DevServerService.ts, second definition of the     *)
(* class, lines 446-1197).                                                 *)
(*                                                                         *)
(* Granularity.  The store is drizzle over better-sqlite3                  *)
(* (unnamed/part_005:103-107), a synchronous driver: an `await db...`      *)
(* runs its statement in the same event-loop task as the code around it.   *)
(* The points where another handler can run are the awaits on real I/O:    *)
(* isPortReachable, findFreePort, the install subprocess, the readiness    *)
(* poll and tree-kill's callback.  Every action below is the code between  *)
(* two such points.                                                        *)
(***************************************************************************)
EXTENDS Integers, Sequences, FiniteSets, TLC

\* ------------------------------------------------------------------ bounds
MaxProcs == 2          \* preview processes spawned in one run
MaxStartCalls == 2     \* start() invocations that may be in flight at once
RangeSize == 1         \* DEV_SERVER_PORT_RANGE_SIZE: ports start..start+size
MaxInFlight == 2       \* service calls suspended at an await at once
TickMinutes == 31      \* granularity of the clock
MaxNow == 32           \* the clock stops here

\* ------------------------------------------------------ program constants
StartPort == 1                 \* DEV_SERVER_START_PORT (3000 in the source)
IdleTimeoutMinutes == 30       \* DEV_SERVER_TIMEOUT_MINUTES default

Customers == {"c1", "c2"}
StartIds == 1..MaxStartCalls
Pids == 1..MaxProcs
NoPid == 0                     \* null / undefined pid
NoPort == 0                    \* stagingPort null

getDevServerPortRange == [start |-> StartPort, end |-> StartPort + RangeSize]

RangePorts == getDevServerPortRange.start..getDevServerPortRange.end
\* one port beyond the range, for a fixed port that the range excludes
Ports == getDevServerPortRange.start..(getDevServerPortRange.end + 1)

\* The customers table: c1 has a fixed staging port, inside the range or
\* (the range is read from the environment at each start) outside it.
FixedConfigs ==
    { cfg \in [Customers -> {NoPort} \cup Ports] :
        /\ cfg["c2"] = NoPort
        /\ cfg["c1"] \in {getDevServerPortRange.start,
                          getDevServerPortRange.end + 1} }

\* The customers table: nobody has a fixed staging port.
DynamicConfig == [c \in Customers |-> NoPort]

VARIABLES
    customers,          \* customers table: customer -> stagingPort
    devServers,         \* dev_servers table: customer -> row ("none": no row)
    runningProcesses,   \* Map<customerId, ChildProcess>: customer -> pid
    startingCustomers,  \* Set<customerId>: the in-flight markers
    procs,              \* the OS: pid -> process
    extListen,          \* ports some foreign program listens on
    startCall,          \* start() invocations: id -> frame
    gsCall,             \* getStatus() in flight: customer -> frame
    stopCall,           \* stop() in flight: customer -> frame
    sweep,              \* cleanupInactive() in flight
    now,                \* Date.now(), minutes
    ret                 \* what the last step returned to its caller

\* The state of the other services: request triage, chat and review queue,
\* publish and rollback.
VARIABLES
    repo,               \* the git repository of the customer's site folder
    gitCall,            \* publish() and rollbackToCommit() in flight: id -> frame
    gitRet,             \* what the last publish or rollback returned
    messages,           \* messages table: id -> row
    reviewRequests,     \* review_requests table: id -> row
    chatCall,           \* sendMessage() in flight: turn -> frame
    reply,              \* what the last chat or review handler answered
    notifications,      \* notifyFlaggedRequest() calls made, by customer message
    lastIndex,          \* the lastIndex of each RegExp object of the triage policy
    triageInput,        \* the EvaluateInput under study
    triagePhase,        \* which calls have been made so far
    triageFirst,        \* what the first evaluate() of triageInput returned
    triageResult        \* what the latest evaluate() of triageInput returned

devVars == <<customers, devServers, runningProcesses, startingCustomers, procs,
             extListen, startCall, gsCall, stopCall, sweep, now, ret>>

triageVars == <<lastIndex, triageInput, triagePhase, triageFirst, triageResult>>

chatVars == <<messages, reviewRequests, chatCall, reply, notifications>>

gitVars == <<repo, gitCall, gitRet>>

\* what the preview manager never touches
others == <<triageVars, chatVars, gitVars>>

vars == <<devVars, others>>

\* ============================================================ request triage
\* backend/src/services/RequestTriageService.ts.  A string is the sequence of
\* its characters; a confidence is in hundredths (0.97 is 97).
MaxPieces == 2         \* pieces a request text is assembled from
MaxPrefix == 2         \* paths at the head of a filesModified list
MaxFill == 8           \* further unremarkable paths behind them

WideThreshold == 8     \* filesModified.length > 8

toLowerCase ==
    ("A" :> "a") @@ ("B" :> "b") @@ ("C" :> "c") @@ ("D" :> "d") @@ ("E"
    :> "e") @@ ("F" :> "f") @@ ("G" :> "g") @@ ("H" :> "h") @@ ("I" :>
    "i") @@ ("J" :> "j") @@ ("K" :> "k") @@ ("L" :> "l") @@ ("M" :> "m")
    @@ ("N" :> "n") @@ ("O" :> "o") @@ ("P" :> "p") @@ ("Q" :> "q") @@
    ("R" :> "r") @@ ("S" :> "s") @@ ("T" :> "t") @@ ("U" :> "u") @@ ("V"
    :> "v") @@ ("W" :> "w") @@ ("X" :> "x") @@ ("Y" :> "y") @@ ("Z" :>
    "z")

\* the i flag: characters are compared after case folding
Canonicalize(ch) == IF ch \in DOMAIN toLowerCase THEN toLowerCase[ch] ELSE ch

Digits == {"0", "1", "2", "3", "4", "5", "6", "7", "8", "9"}
\* \w
WordChars ==
    DOMAIN toLowerCase \cup { toLowerCase[u] : u \in DOMAIN toLowerCase }
    \cup Digits \cup {"_"}
IsWordChar(ch) == ch \in WordChars
\* the white space String.prototype.trim removes
IsWhiteSpace(ch) == ch \in {" ", "\t", "\n", "\r"}

\* String.prototype.trim
Least(S) == CHOOSE i \in S : \A j \in S : i <= j
Greatest(S) == CHOOSE i \in S : \A j \in S : j <= i

\* the string between the first and the last of its positions Black
Between(s, Black) ==
    IF Black = {} THEN <<>> ELSE SubSeq(s, Least(Black), Greatest(Black))

\* String.prototype.trim
trim(s) == Between(s, { i \in 1..Len(s) : ~IsWhiteSpace(s[i]) })

\* A pattern element: one character of a set, optional (x?) or not.
Lit(s) == [i \in 1..Len(s) |-> [set |-> {s[i]}, opt |-> FALSE]]
Opt(set) == <<[set |-> set, opt |-> TRUE]>>

\* Every pattern is <pre>(alt|alt|...)<post> with flags.  pre: "b" is \b,
\* "seg" is (^|\/).  post: "b" is \b, "end" is $, "dotOrEnd" is (\.|$),
\* "none" is nothing.  A literal tail shared by the alternatives (\.config,
\* \/) is written into each of them.
MAJOR_REQUEST_PATTERNS == <<
    [ source |-> "\\b(booking system|appointment system|reservation system)\\b",
      flags |-> {"i"}, pre |-> "b", post |-> "b",
      alts |-> <<
                   Lit(<<"b", "o", "o", "k", "i", "n", "g", " ", "s", "y", "s", "t", "e", "m">>),
                   Lit(<<"a", "p", "p", "o", "i", "n", "t", "m", "e", "n", "t", " ", "s", "y", "s", "t", "e", "m">>),
                   Lit(<<"r", "e", "s", "e", "r", "v", "a", "t", "i", "o", "n", " ", "s", "y", "s", "t", "e", "m">>) >> ],
    [ source |-> "\\b(payment|checkout|stripe|subscription|billing)\\b",
      flags |-> {"i"}, pre |-> "b", post |-> "b",
      alts |-> <<
                   Lit(<<"p", "a", "y", "m", "e", "n", "t">>),
                   Lit(<<"c", "h", "e", "c", "k", "o", "u", "t">>),
                   Lit(<<"s", "t", "r", "i", "p", "e">>),
                   Lit(<<"s", "u", "b", "s", "c", "r", "i", "p", "t", "i", "o", "n">>),
                   Lit(<<"b", "i", "l", "l", "i", "n", "g">>) >> ],
    [ source |-> "\\b(login|sign[ -]?in|authentication|auth)\\b",
      flags |-> {"i"}, pre |-> "b", post |-> "b",
      alts |-> <<
                   Lit(<<"l", "o", "g", "i", "n">>),
                   Lit(<<"s", "i", "g", "n">>) \o Opt({" ", "-"}) \o Lit(<<"i", "n">>),
                   Lit(<<"a", "u", "t", "h", "e", "n", "t", "i", "c", "a", "t", "i", "o", "n">>),
                   Lit(<<"a", "u", "t", "h">>) >> ],
    [ source |-> "\\b(database|schema|migration|api endpoint|backend)\\b",
      flags |-> {"i"}, pre |-> "b", post |-> "b",
      alts |-> <<
                   Lit(<<"d", "a", "t", "a", "b", "a", "s", "e">>),
                   Lit(<<"s", "c", "h", "e", "m", "a">>),
                   Lit(<<"m", "i", "g", "r", "a", "t", "i", "o", "n">>),
                   Lit(<<"a", "p", "i", " ", "e", "n", "d", "p", "o", "i", "n", "t">>),
                   Lit(<<"b", "a", "c", "k", "e", "n", "d">>) >> ],
    [ source |-> "\\b(redesign|rebuild|complete overhaul|new layout)\\b",
      flags |-> {"i"}, pre |-> "b", post |-> "b",
      alts |-> <<
                   Lit(<<"r", "e", "d", "e", "s", "i", "g", "n">>),
                   Lit(<<"r", "e", "b", "u", "i", "l", "d">>),
                   Lit(<<"c", "o", "m", "p", "l", "e", "t", "e", " ", "o", "v", "e", "r", "h", "a", "u", "l">>),
                   Lit(<<"n", "e", "w", " ", "l", "a", "y", "o", "u", "t">>) >> ],
    [ source |-> "\\b(integration|webhook|crm|erp)\\b",
      flags |-> {"i"}, pre |-> "b", post |-> "b",
      alts |-> <<
                   Lit(<<"i", "n", "t", "e", "g", "r", "a", "t", "i", "o", "n">>),
                   Lit(<<"w", "e", "b", "h", "o", "o", "k">>),
                   Lit(<<"c", "r", "m">>),
                   Lit(<<"e", "r", "p">>) >> ]
>>

HIGH_RISK_FILE_PATTERNS == <<
    [ source |-> "(^|\\/)\\.env(\\.|$)",
      flags |-> {"i"}, pre |-> "seg", post |-> "dotOrEnd",
      alts |-> <<
                   Lit(<<".", "e", "n", "v">>) >> ],
    [ source |-> "(^|\\/)package\\.json$",
      flags |-> {"i"}, pre |-> "seg", post |-> "end",
      alts |-> <<
                   Lit(<<"p", "a", "c", "k", "a", "g", "e", ".", "j", "s", "o", "n">>) >> ],
    [ source |-> "(^|\\/)(vite|webpack|tsconfig|next|nuxt|astro)\\.config",
      flags |-> {"i"}, pre |-> "seg", post |-> "none",
      alts |-> <<
                   Lit(<<"v", "i", "t", "e", ".", "c", "o", "n", "f", "i", "g">>),
                   Lit(<<"w", "e", "b", "p", "a", "c", "k", ".", "c", "o", "n", "f", "i", "g">>),
                   Lit(<<"t", "s", "c", "o", "n", "f", "i", "g", ".", "c", "o", "n", "f", "i", "g">>),
                   Lit(<<"n", "e", "x", "t", ".", "c", "o", "n", "f", "i", "g">>),
                   Lit(<<"n", "u", "x", "t", ".", "c", "o", "n", "f", "i", "g">>),
                   Lit(<<"a", "s", "t", "r", "o", ".", "c", "o", "n", "f", "i", "g">>) >> ],
    [ source |-> "(^|\\/)(server|backend|api|functions?)\\/",
      flags |-> {"i"}, pre |-> "seg", post |-> "none",
      alts |-> <<
                   Lit(<<"s", "e", "r", "v", "e", "r", "/">>),
                   Lit(<<"b", "a", "c", "k", "e", "n", "d", "/">>),
                   Lit(<<"a", "p", "i", "/">>),
                   Lit(<<"f", "u", "n", "c", "t", "i", "o", "n">>) \o Opt({"s"}) \o Lit(<<"/">>) >> ],
    [ source |-> "(^|\\/)(routes?|router)\\/",
      flags |-> {"i"}, pre |-> "seg", post |-> "none",
      alts |-> <<
                   Lit(<<"r", "o", "u", "t", "e">>) \o Opt({"s"}) \o Lit(<<"/">>),
                   Lit(<<"r", "o", "u", "t", "e", "r", "/">>) >> ]
>>

\* the positions (of the next character) where elements k.. of an
\* alternative can end when they start at position i of s
RECURSIVE MatchFrom(_, _, _, _)
MatchFrom(alt, k, s, i) ==
    IF k > Len(alt) THEN {i}
    ELSE (IF i <= Len(s) /\ Canonicalize(s[i]) \in alt[k].set
          THEN MatchFrom(alt, k + 1, s, i + 1) ELSE {})
         \cup (IF alt[k].opt THEN MatchFrom(alt, k + 1, s, i) ELSE {})

\* \b between s[i-1] and s[i]
WordBoundary(s, i) ==
    (i > 1 /\ IsWordChar(s[i - 1])) # (i <= Len(s) /\ IsWordChar(s[i]))

PreHolds(p, s, i) ==
    IF p.pre = "b" THEN WordBoundary(s, i) ELSE i = 1 \/ s[i - 1] = "/"

PostHolds(p, s, j) ==
    CASE p.post = "b" -> WordBoundary(s, j)
      [] p.post = "end" -> j = Len(s) + 1
      [] p.post = "dotOrEnd" -> j = Len(s) + 1 \/ s[j] = "."
      [] OTHER -> TRUE

\* where the pattern's matches that start at position i end
EndsAt(p, s, i) ==
    IF ~PreHolds(p, s, i) THEN {}
    ELSE UNION { { j \in MatchFrom(p.alts[a], 1, s, i) : PostHolds(p, s, j) } :
                 a \in DOMAIN p.alts }

\* mutant: every RegExp object carries the g flag
IsGlobal_Always(p) == TRUE

\* a RegExp with the g or y flag searches from its lastIndex and moves it
IsGlobal(p) == "g" \in p.flags \/ "y" \in p.flags

\* the outcome of a search that found matches starting at Starts: whether
\* the pattern was found and the object's lastIndex afterwards.  (The end of
\* the match matters only to a global pattern; the greedy one is taken.)
ExecResult(p, s, li, global, Starts) ==
    IF Starts = {}
    THEN [found |-> FALSE, lastIndex |-> IF global THEN 0 ELSE li]
    ELSE [found |-> TRUE,
          lastIndex |-> IF global
                        THEN Greatest(EndsAt(p, s, Least(Starts))) - 1
                        ELSE li]

\* the search, from lastIndex when the pattern is global, from 0 otherwise
RegExpExec(p, s, li, global) ==
    ExecResult(p, s, li, global,
               { i \in ((IF global THEN li ELSE 0) + 1)..(Len(s) + 1) :
                   EndsAt(p, s, i) # {} })

\* RegExp.prototype.test on a RegExp object whose lastIndex is li
RegExpTest(p, s, li) == RegExpExec(p, s, li, IsGlobal(p))

\* lines 84-86: MAJOR_REQUEST_PATTERNS.find(p => p.test(request)), from
\* pattern k on, t being what pattern k answered; hit is the index of the
\* pattern found, 0 for undefined
RECURSIVE findMajorIntent(_, _, _)
findMajorIntentStep(s, k, li, t) ==
    IF t.found THEN [hit |-> k, li |-> [li EXCEPT !.major[k] = t.lastIndex]]
    ELSE findMajorIntent(s, k + 1, [li EXCEPT !.major[k] = t.lastIndex])

findMajorIntent(s, k, li) ==
    IF k > Len(MAJOR_REQUEST_PATTERNS) THEN [hit |-> 0, li |-> li]
    ELSE findMajorIntentStep(s, k, li,
             RegExpTest(MAJOR_REQUEST_PATTERNS[k], s, li.major[k]))

\* line 96: HIGH_RISK_FILE_PATTERNS.some(p => p.test(path)), from pattern k
\* on, t being what pattern k answered
RECURSIVE someHighRisk(_, _, _)
someHighRiskStep(path, k, li, t) ==
    IF t.found THEN [hit |-> TRUE, li |-> [li EXCEPT !.risk[k] = t.lastIndex]]
    ELSE someHighRisk(path, k + 1, [li EXCEPT !.risk[k] = t.lastIndex])

someHighRisk(path, k, li) ==
    IF k > Len(HIGH_RISK_FILE_PATTERNS) THEN [hit |-> FALSE, li |-> li]
    ELSE someHighRiskStep(path, k, li,
             RegExpTest(HIGH_RISK_FILE_PATTERNS[k], path, li.risk[k]))

\* lines 95-97: filesModified.find(path => ...), from file n on, r being
\* what file n answered; hit is the index of the file found, 0 for undefined
RECURSIVE findHighRiskFile(_, _, _)
findHighRiskFileStep(files, n, r) ==
    IF r.hit THEN [hit |-> n, li |-> r.li]
    ELSE findHighRiskFile(files, n + 1, r.li)

findHighRiskFile(files, n, li) ==
    IF n > Len(files) THEN [hit |-> 0, li |-> li]
    ELSE findHighRiskFileStep(files, n, someHighRisk(files[n], 1, li))

\* a trigger string: kind, or kind:source, or kind:path
Trigger(kind) == [kind |-> kind, source |-> "", path |-> <<>>]
MajorIntent(p) == [kind |-> "major_intent", source |-> p.source, path |-> <<>>]
HighRiskFile(path) == [kind |-> "high_risk_file", source |-> "", path |-> path]

TriageResult(decision, scope, confidence, reason, triggers) ==
    [decision |-> decision, scope |-> scope, confidence |-> confidence,
     reason |-> reason, triggers |-> triggers, policyVersion |-> "v1"]

NoResult == TriageResult("-", "-", 0, "-", <<>>)

\* input.filesModified || []
OrEmpty(fm) == IF fm.present THEN fm.list ELSE <<>>

\* mutant: the high-risk file is reported first
collectTriggers_RiskFirst(filesModified, majorIntentMatch, highRiskFile) ==
    (IF highRiskFile.hit # 0
     THEN <<HighRiskFile(filesModified[highRiskFile.hit])>>
     ELSE <<>>)
    \o (IF majorIntentMatch.hit # 0
        THEN <<MajorIntent(MAJOR_REQUEST_PATTERNS[majorIntentMatch.hit])>>
        ELSE <<>>)
    \o (IF Len(filesModified) > WideThreshold
        THEN <<Trigger("wide_file_change_set")>> ELSE <<>>)

\* lines 87-89, 91-93, 98-100: the triggers pushed, in the order pushed
collectTriggers(filesModified, majorIntentMatch, highRiskFile) ==
    (IF majorIntentMatch.hit # 0
     THEN <<MajorIntent(MAJOR_REQUEST_PATTERNS[majorIntentMatch.hit])>>
     ELSE <<>>)
    \o (IF Len(filesModified) > WideThreshold
        THEN <<Trigger("wide_file_change_set")>> ELSE <<>>)
    \o (IF highRiskFile.hit # 0
        THEN <<HighRiskFile(filesModified[highRiskFile.hit])>>
        ELSE <<>>)

\* line 103: triggers.includes("agent_execution_error")
isUncertain(triggers) ==
    \E t \in DOMAIN triggers : triggers[t] = Trigger("agent_execution_error")

\* lines 102-122
decide(triggers, uncertain) ==
    IF Len(triggers) > 0
    THEN TriageResult("flag",
             IF uncertain THEN "uncertain" ELSE "major",
             IF uncertain THEN 97 ELSE 84,
             "This request exceeds the safe auto-edit policy and should be reviewed before billing and implementation.",
             triggers)
    ELSE TriageResult("auto", "minor", 92,
             "Request appears to be a small, low-risk website content or styling update.",
             <<>>)

decideTriggers(triggers) == decide(triggers, isUncertain(triggers))

\* lines 95-122, the request's patterns tested
afterHighRisk(filesModified, majorIntentMatch, highRiskFile) ==
    [result |-> decideTriggers(collectTriggers(filesModified, majorIntentMatch,
                                               highRiskFile)),
     lastIndex |-> highRiskFile.li]

afterMajorIntent(filesModified, majorIntentMatch) ==
    afterHighRisk(filesModified, majorIntentMatch,
                  findHighRiskFile(filesModified, 1, majorIntentMatch.li))

\* mutant: the agent's error is not looked at
evaluateNormalized_ErrorIgnored(input, normalizedRequest, filesModified, li) ==
    IF ~input.agentCompletedSuccessfully /\ Len(filesModified) = 0
    THEN [result |-> TriageResult("flag", "uncertain", 90,
              "The assistant did not complete successfully and made no file changes, so manual review is required.",
              <<Trigger("agent_incomplete_no_edits")>>),
          lastIndex |-> li]
    ELSE IF normalizedRequest = <<>>
    THEN [result |-> TriageResult("flag", "uncertain", 90,
              "The request content is empty or invalid and needs manual handling.",
              <<Trigger("empty_request")>>),
          lastIndex |-> li]
    ELSE afterMajorIntent(filesModified,
                          findMajorIntent(normalizedRequest, 1, li))

\* lines 43-122, normalizedRequest and filesModified computed
evaluateNormalized(input, normalizedRequest, filesModified, li) ==
    IF input.agentHadError
    THEN [result |-> TriageResult("flag", "uncertain", 97,
              "The assistant encountered an error and could not complete the request cleanly, so manual review is required.",
              <<Trigger("agent_execution_error")>>),
          lastIndex |-> li]
    ELSE IF ~input.agentCompletedSuccessfully /\ Len(filesModified) = 0
    THEN [result |-> TriageResult("flag", "uncertain", 90,
              "The assistant did not complete successfully and made no file changes, so manual review is required.",
              <<Trigger("agent_incomplete_no_edits")>>),
          lastIndex |-> li]
    ELSE IF normalizedRequest = <<>>
    THEN [result |-> TriageResult("flag", "uncertain", 90,
              "The request content is empty or invalid and needs manual handling.",
              <<Trigger("empty_request")>>),
          lastIndex |-> li]
    ELSE afterMajorIntent(filesModified,
                          findMajorIntent(normalizedRequest, 1, li))

\* lines 38-123: evaluate(input) with the RegExp objects' lastIndex at li;
\* the result and the lastIndex afterwards
evaluate(input, li) ==
    evaluateNormalized(input, trim(input.request),
                       OrEmpty(input.filesModified), li)

\* ---- the inputs
RECURSIVE Concat(_)
Concat(ss) == IF ss = <<>> THEN <<>> ELSE Head(ss) \o Concat(Tail(ss))

SeqsUpTo(S, n) == UNION { [1..m -> S] : m \in 0..n }

Pieces == { <<"a", "u", "t", "h">>, <<"o", "r">>, <<" ">> }

Requests ==
    { Concat(ps) : ps \in SeqsUpTo(Pieces, MaxPieces) }
    \cup { <<"s", "i", "g", "n", "-", "i", "n">>,
           <<"P", "a", "y", "m", "e", "n", "t">>,
           <<"b", "o", "o", "k", "i", "n", "g", " ", "s", "y", "s", "t", "e", "m">>,
           <<"b", "o", "o", "k", "i", "n", "g", " ", " ", "s", "y", "s", "t", "e", "m">>,
           <<"w", "e", "b", "h", "o", "o", "k", "s">>,
           <<"f", "i", "x", " ", "t", "y", "p", "o", " ", "i", "n", " ", "f", "o", "o", "t", "e", "r">> }

PlainPath == <<"a", ".", "c", "s", "s">>
Paths == { PlainPath,
           <<".", "e", "n", "v">>,
           <<"s", "r", "c", "/", "s", "e", "r", "v", "e", "r", "/", "r", "o", "u", "t", "e", "s", "/", "a", "u", "t", "h", ".", "t", "s">> }

\* a short head of any paths, then unremarkable ones
Fills == {0} \cup ((WideThreshold - 1)..MaxFill)
FileLists ==
    { head \o [i \in 1..n |-> PlainPath] :
        head \in SeqsUpTo(Paths, MaxPrefix), n \in Fills }
    \cup { <<<<"p", "a", "c", "k", "a", "g", "e", ".", "j", "s", "o", "n">>>>,
           <<<<"s", "r", "c", "/", "p", "a", "c", "k", "a", "g", "e", ".", "j", "s", "o", "n", ".", "b", "a", "k">>>>,
           <<<<"v", "i", "t", "e", ".", "c", "o", "n", "f", "i", "g", ".", "t", "s">>>>,
           <<<<".", "e", "n", "v", ".", "l", "o", "c", "a", "l">>>>,
           <<<<"d", "o", "c", "s", "/", ".", "e", "n", "v", "i", "r", "o", "n", "m", "e", "n", "t">>>>,
           <<<<"R", "o", "u", "t", "e", "s", "/", "x">>>> }

Inputs ==
    [ request : Requests,
      filesModified : { [present |-> TRUE, list |-> l] : l \in FileLists }
                      \cup { [present |-> FALSE, list |-> <<>>] },
      agentCompletedSuccessfully : BOOLEAN,
      agentHadError : BOOLEAN ]

\* the calls made between two evaluations of the input under study
OtherInputs ==
    { i \in Inputs : /\ i.request \in { <<"P", "a", "y", "m", "e", "n", "t">>, <<"s", "i", "g", "n", "-", "i", "n">> }
                     /\ i.filesModified.present
                     /\ i.filesModified.list = <<<<".", "e", "n", "v", ".", "l", "o", "c", "a", "l">>>>
                     /\ i.agentCompletedSuccessfully
                     /\ ~i.agentHadError }

NoInput == [request |-> <<>>,
            filesModified |-> [present |-> FALSE, list |-> <<>>],
            agentCompletedSuccessfully |-> FALSE, agentHadError |-> FALSE]

FreshLastIndex ==
    [ major |-> [k \in DOMAIN MAJOR_REQUEST_PATTERNS |-> 0],
      risk |-> [k \in DOMAIN HIGH_RISK_FILE_PATTERNS |-> 0] ]

\* the state of the triage service when nobody has called it
TriageIdle ==
    /\ lastIndex = FreshLastIndex
    /\ triageInput = NoInput
    /\ triagePhase = "none"
    /\ triageFirst = NoResult
    /\ triageResult = NoResult

\* a caller evaluates the input under study
Evaluate ==
    LET e == evaluate(triageInput, lastIndex)
    IN  /\ triageResult' = e.result
        /\ triageFirst' = IF triagePhase = "none" THEN e.result ELSE triageFirst
        /\ triagePhase' = CASE triagePhase = "none" -> "first"
                            [] triagePhase = "between" -> "again"
                            [] OTHER -> triagePhase
        /\ lastIndex' = e.lastIndex
        /\ UNCHANGED triageInput
        /\ UNCHANGED <<devVars, chatVars, gitVars>>

\* another caller evaluates something else in between
EvaluateOther(other) ==
    /\ triagePhase \in {"first", "between"}
    /\ lastIndex' = evaluate(other, lastIndex).lastIndex
    /\ triagePhase' = "between"
    /\ UNCHANGED <<triageInput, triageFirst, triageResult>>
    /\ UNCHANGED <<devVars, chatVars, gitVars>>

\* ===================================================== chat and review queue
\* backend/src/services/ChatService.ts, ReviewRequestService
\* (unnamed/part_001), the customer routes (routes/devserver.routes.ts:
\* 114-186) and the admin review routes (routes/admin.routes.ts:731-812).
\* Every statement of a handler is a synchronous store call, so a handler is
\* one step; sendMessage alone waits for the agent in between.
MaxTurns == 2          \* chat turns in one run

TurnIds == 1..MaxTurns
MsgIds == 1..(2 * MaxTurns)        \* a turn stores at most two messages
ReviewIds == 1..MaxTurns           \* a turn stores at most one review request
NoMsg == 0
NoPrice == -1                      \* quotedPriceCents null

NoMessage == [role |-> "none", flagged |-> FALSE]
NoReview == [status |-> "none", customerId |-> "-", assistantMessageId |-> NoMsg,
             decision |-> "-", quotedPriceCents |-> NoPrice,
             approvedAt |-> FALSE]
IdleChat == [pc |-> "idle", cust |-> "-", content |-> <<>>, msgId |-> NoMsg]
DoneChat == [IdleChat EXCEPT !.pc = "done"]
\* `by`: the customer who sent an approve
NoReply == [op |-> "-", id |-> 0, by |-> "-", code |-> 0, error |-> "-"]
Reply(op, id, code, error) ==
    [op |-> op, id |-> id, by |-> "-", code |-> code, error |-> error]
ReplyTo(c, op, id, code, error) == [Reply(op, id, code, error) EXCEPT !.by = c]

\* nanoid(): an id no row has
NextMsgId == Cardinality({ m \in MsgIds : messages[m].role # "none" }) + 1
NextReviewId ==
    Cardinality({ r \in ReviewIds : reviewRequests[r].status # "none" }) + 1

ChatIdle ==
    /\ messages = [m \in MsgIds |-> NoMessage]
    /\ reviewRequests = [r \in ReviewIds |-> NoReview]
    /\ chatCall = [k \in TurnIds |-> IdleChat]
    /\ reply = NoReply
    /\ notifications = {}

\* what customers ask for in the chat
ChatRequests == { <<"a", "u", "t", "h">>, <<"o", "r">> }

\* what the agent reports back
AgentOutcomes ==
    [ filesModified : { [present |-> TRUE, list |-> <<PlainPath>>] },
      agentCompletedSuccessfully : {TRUE},
      agentHadError : BOOLEAN ]

\* ChatService.ts:56-122: the session
\* is checked, the customer's message stored, the agent called
SendMessageBegin(k, c, content, sessionOk) ==
    /\ chatCall[k].pc = "idle"
    /\ \A j \in TurnIds : j < k => chatCall[j].pc # "idle"
    /\ IF ~sessionOk
       THEN /\ chatCall' = [chatCall EXCEPT ![k] = DoneChat]
            /\ reply' = Reply("sendMessage", 0, 500,
                              "Session not found or unauthorized")
            /\ UNCHANGED messages
       ELSE /\ messages' = [messages EXCEPT
                               ![NextMsgId] = [role |-> "customer",
                                               flagged |-> FALSE]]
            /\ chatCall' = [chatCall EXCEPT
                               ![k] = [pc |-> "agent", cust |-> c,
                                       content |-> content,
                                       msgId |-> NextMsgId]]
            /\ reply' = NoReply
    /\ UNCHANGED <<reviewRequests, notifications, devVars, triageVars, gitVars>>

\* part_001:17-46: createFromTriage; the insert may throw
createFromTriage(c, assistantMessageId, triage, insertOk) ==
    IF insertOk
    THEN [reviewRequests EXCEPT
             ![NextReviewId] = [status |-> "open", customerId |-> c,
                                assistantMessageId |-> assistantMessageId,
                                decision |-> triage.decision,
                                quotedPriceCents |-> NoPrice,
                                approvedAt |-> FALSE]]
    ELSE reviewRequests

\* ChatService.ts:133-198: the agent has answered; the turn is
\* triaged, the assistant's message stored and, when flagged, the review
\* request created.  Either insert may throw, which ends the handler.
SendMessageEnd(k, outcome, responseOk, reviewOk) ==
    /\ chatCall[k].pc = "agent"
    /\ LET e == evaluate([request |-> chatCall[k].content,
                          filesModified |-> outcome.filesModified,
                          agentCompletedSuccessfully |->
                              outcome.agentCompletedSuccessfully,
                          agentHadError |-> outcome.agentHadError],
                         lastIndex)
           flagged == e.result.decision = "flag"
           responseId == NextMsgId
       IN  /\ lastIndex' = e.lastIndex
           /\ messages' = IF responseOk
                          THEN [messages EXCEPT
                                   ![responseId] = [role |-> "assistant",
                                                    flagged |-> flagged]]
                          ELSE messages
           /\ reviewRequests' =
                  IF responseOk /\ flagged
                  THEN createFromTriage(chatCall[k].cust, responseId,
                                        e.result, reviewOk)
                  ELSE reviewRequests
           /\ notifications' =
                  IF responseOk /\ flagged /\ reviewOk
                  THEN notifications \cup {chatCall[k].msgId}
                  ELSE notifications
           /\ reply' = IF responseOk /\ (flagged => reviewOk)
                       THEN Reply("sendMessage", responseId, 200, "-")
                       ELSE Reply("sendMessage", 0, 500, "insert failed")
    /\ chatCall' = [chatCall EXCEPT ![k] = DoneChat]
    /\ UNCHANGED <<triageInput, triagePhase, triageFirst, triageResult>>
    /\ UNCHANGED <<devVars, gitVars>>

\* what the generator's catch block yields (ChatService.ts:390-397)
StreamTrouble == "I'm having trouble processing your request right now."

\* ChatService.ts:205-287 under the SSE route part_007:136-183: the session
\* is checked, the customer's message stored, the agent's stream opened.  An
\* error event ends the response (part_007:179-182).
SendMessageStreamBegin(k, c, content, sessionOk) ==
    /\ chatCall[k].pc = "idle"
    /\ \A j \in TurnIds : j < k => chatCall[j].pc # "idle"
    /\ IF ~sessionOk
       THEN /\ chatCall' = [chatCall EXCEPT ![k] = DoneChat]
            /\ reply' = Reply("sendMessageStream", 0, 200,
                              "Session not found or unauthorized")
            /\ UNCHANGED messages
       ELSE /\ messages' = [messages EXCEPT
                               ![NextMsgId] = [role |-> "customer",
                                               flagged |-> FALSE]]
            /\ chatCall' = [chatCall EXCEPT
                               ![k] = [pc |-> "stream", cust |-> c,
                                       content |-> content,
                                       msgId |-> NextMsgId]]
            /\ reply' = NoReply
    /\ UNCHANGED <<reviewRequests, notifications, devVars, triageVars, gitVars>>

\* ChatService.ts:313-319 and part_007:179-182: the agent's stream yields an
\* error event; the generator forwards it with a yield, and the route
\* answers it by ending the response and returning from inside its for await,
\* which closes the generator where it stands: nothing after the yield runs.
SendMessageStreamError(k) ==
    /\ chatCall[k].pc = "stream"
    /\ reply' = Reply("sendMessageStream", 0, 200, "agent error")
    /\ chatCall' = [chatCall EXCEPT ![k] = DoneChat]
    /\ UNCHANGED <<messages, reviewRequests, notifications>>
    /\ UNCHANGED <<devVars, triageVars, gitVars>>

\* ChatService.ts:288-389 and part_007:171-191: the agent's stream has ended
\* without an error event; the turn is triaged, the assistant's message
\* stored, when flagged the review request created and the notification
\* sent, and the done event yielded.  An insert that throws is caught at line
\* 390 and becomes an error event.
SendMessageStreamEnd(k, outcome, responseOk, reviewOk) ==
    /\ chatCall[k].pc = "stream"
    /\ ~outcome.agentHadError
    /\ LET e == evaluate([request |-> chatCall[k].content,
                          filesModified |-> outcome.filesModified,
                          agentCompletedSuccessfully |->
                              outcome.agentCompletedSuccessfully,
                          agentHadError |-> FALSE],
                         lastIndex)
           flagged == e.result.decision = "flag"
           responseId == NextMsgId
       IN  /\ lastIndex' = e.lastIndex
           /\ messages' = IF responseOk
                          THEN [messages EXCEPT
                                   ![responseId] = [role |-> "assistant",
                                                    flagged |-> flagged]]
                          ELSE messages
           /\ reviewRequests' =
                  IF responseOk /\ flagged
                  THEN createFromTriage(chatCall[k].cust, responseId,
                                        e.result, reviewOk)
                  ELSE reviewRequests
           /\ notifications' =
                  IF responseOk /\ flagged /\ reviewOk
                  THEN notifications \cup {chatCall[k].msgId}
                  ELSE notifications
           /\ reply' = IF responseOk /\ (flagged => reviewOk)
                       THEN Reply("sendMessageStream", responseId, 200, "-")
                       ELSE Reply("sendMessageStream", 0, 200, StreamTrouble)
    /\ chatCall' = [chatCall EXCEPT ![k] = DoneChat]
    /\ UNCHANGED <<triageInput, triagePhase, triageFirst, triageResult>>
    /\ UNCHANGED <<devVars, gitVars>>

\* priceAud as the admin's form sends it: not a number, or thousandths of a
\* dollar
PriceInputs == { [finite |-> FALSE, milli |-> 0] }
               \cup { [finite |-> TRUE, milli |-> m] : m \in {0, 4, 1500} }

\* Math.round(parsedPrice * 100)
PriceCents(price) == (price.milli + 5) \div 10

\* admin.routes.ts:731-772: PUT /reviews/:id/quote
Quote(id, price) ==
    /\ IF ~price.finite \/ price.milli <= 0
       THEN /\ reply' = Reply("quote", id, 400,
                              "priceAud must be a positive number")
            /\ UNCHANGED reviewRequests
       ELSE IF reviewRequests[id].status = "none"
       THEN /\ reply' = Reply("quote", id, 404, "Review request not found")
            /\ UNCHANGED reviewRequests
       ELSE /\ reviewRequests' =
                   [reviewRequests EXCEPT
                       ![id].quotedPriceCents = PriceCents(price),
                       ![id].status = "quoted"]
            /\ reply' = Reply("quote", id, 200, "-")
    /\ UNCHANGED <<messages, chatCall, notifications, devVars, triageVars, gitVars>>

allowedStatuses == {"open", "quoted", "approved", "rejected", "completed"}

\* admin.routes.ts:775-812: PUT /reviews/:id/status
SetStatus(id, status) ==
    /\ IF status \notin allowedStatuses
       THEN /\ reply' = Reply("setStatus", id, 400, "Invalid status value")
            /\ UNCHANGED reviewRequests
       ELSE IF reviewRequests[id].status = "none"
       THEN /\ reply' = Reply("setStatus", id, 404, "Review request not found")
            /\ UNCHANGED reviewRequests
       ELSE /\ reviewRequests' = [reviewRequests EXCEPT ![id].status = status]
            /\ reply' = Reply("setStatus", id, 200, "-")
    /\ UNCHANGED <<messages, chatCall, notifications, devVars, triageVars, gitVars>>

\* mutant: the status is not looked at
Approvable_Any(row) == TRUE

\* devserver.routes.ts:160
Approvable(row) == row.status = "quoted"

\* devserver.routes.ts:137-183: POST /review-requests/:id/approve, sent by
\* customer c
Approve(c, id) ==
    /\ IF reviewRequests[id].status = "none"
          \/ reviewRequests[id].customerId # c
       THEN /\ reply' = ReplyTo(c, "approve", id, 404,
                                "Review request not found")
            /\ UNCHANGED reviewRequests
       ELSE IF ~Approvable(reviewRequests[id])
       THEN /\ reply' = ReplyTo(c, "approve", id, 400,
                                "Only quoted requests can be approved")
            /\ UNCHANGED reviewRequests
       ELSE /\ reviewRequests' = [reviewRequests EXCEPT
                                     ![id].status = "approved",
                                     ![id].approvedAt = TRUE]
            /\ reply' = ReplyTo(c, "approve", id, 200, "-")
    /\ UNCHANGED <<messages, chatCall, notifications, devVars, triageVars, gitVars>>

\* ===================================================== publish and rollback
\* backend/src/services/PublishService.ts:8-233, on the repository of one
\* site folder.  Every execAsync is a child process the handler waits for, so
\* every git command is a step of its own; a command that writes may fail
\* (a lock held by another git process, a hook, the network).
MaxGitCalls == 2       \* publish and rollback calls in one run

GitIds == 1..MaxGitCalls
\* the contents a working tree, an index or a commit may have
Trees == {"t1", "t2"}
NoCommit == 0

\* the site as cloned: one commit, pushed, nothing edited
InitialRepo ==
    [ commits |-> << [tree |-> "t1", parent |-> NoCommit] >>,
      head |-> 1, index |-> "t1", worktree |-> "t1", remote |-> 1 ]

HeadTree(r) == r.commits[r.head].tree

\* git status --porcelain prints something: an unstaged, staged or untracked
\* change
gitStatusPorcelain(r) == r.worktree # r.index \/ r.index # HeadTree(r)

\* git add .
gitAdd(r) == [r EXCEPT !.index = r.worktree]

\* git commit exits 1 when nothing is staged
NothingToCommit(r) == r.index = HeadTree(r)

\* git commit -m ...
gitCommit(r) ==
    [r EXCEPT !.commits = Append(@, [tree |-> r.index, parent |-> r.head]),
              !.head = Len(r.commits) + 1]

\* git push
gitPush(r) == [r EXCEPT !.remote = r.head]

\* git restore --source <commit> --staged --worktree .
gitRestore(r, commit) ==
    [r EXCEPT !.index = r.commits[commit].tree,
              !.worktree = r.commits[commit].tree]

\* the commits reachable from commit c
RECURSIVE Ancestors(_, _)
Ancestors(r, c) ==
    IF c = NoCommit THEN {} ELSE {c} \cup Ancestors(r, r.commits[c].parent)

\* targetCommitHash: malformed ("bad"), the 40 characters of a commit's hash
\* ("full") or another accepted spelling of it, abbreviated or in upper case
\* ("short"); a well-formed hash may name no commit of the repository
Targets ==
    { [fmt |-> "bad", commit |-> NoCommit] }
    \cup [ fmt : {"full", "short"}, commit : 1..(1 + MaxGitCalls) ]

\* line 155: !targetCommitHash || !/^[a-f0-9]{7,40}$/i.test(targetCommitHash)
WellFormed(target) == target.fmt # "bad"

\* git rev-parse --verify <hash>^{commit}
revParseVerify(r, target) == target.commit \in 1..Len(r.commits)

\* line 178: currentHash === targetCommitHash, currentHash being the full
\* hash of commit current in lower case
SameHash(current, target) == target.fmt = "full" /\ target.commit = current

\* `hash`: what git rev-parse HEAD printed; `commit`: the commit this call
\* made; `restored`: this call's git restore has changed the index or the
\* working tree; `pushed`: how this call's git push ended
IdleGit == [op |-> "-", pc |-> "idle", target |-> [fmt |-> "bad", commit |-> NoCommit],
            hash |-> NoCommit, commit |-> NoCommit, restored |-> FALSE]
DoneGit(op) == [IdleGit EXCEPT !.op = op, !.pc = "done"]
NoGitRet == [call |-> 0, op |-> "-", success |-> FALSE, message |-> "-",
             warning |-> "-", commitHash |-> NoCommit, commit |-> NoCommit,
             restored |-> FALSE, pushed |-> "-"]
GitRet(k, op, success, message) ==
    [NoGitRet EXCEPT !.call = k, !.op = op, !.success = success,
                     !.message = message]

GitIdle ==
    /\ repo = InitialRepo
    /\ gitCall = [k \in GitIds |-> IdleGit]
    /\ gitRet = NoGitRet

GitFrame == UNCHANGED <<devVars, triageVars, chatVars>>

\* the call in slot k returns
GitReturn(k, result) ==
    /\ gitCall' = [gitCall EXCEPT ![k] = DoneGit(gitCall[k].op)]
    /\ gitRet' = [result EXCEPT !.commit = gitCall[k].commit,
                                !.restored = gitCall[k].restored]

\* the catch block of publish (lines 75-83) and of rollbackToCommit (223-230)
GitThrows(k, op) ==
    /\ gitCall' = [gitCall EXCEPT ![k] = DoneGit(op)]
    /\ gitRet' = [GitRet(k, op, FALSE, IF op = "publish"
                                       THEN "Failed to publish changes"
                                       ELSE "Failed to roll back changes")
                     EXCEPT !.commit = gitCall[k].commit,
                            !.restored = gitCall[k].restored]

GitGoes(k, pc) ==
    /\ gitCall' = [gitCall EXCEPT ![k].pc = pc]
    /\ gitRet' = NoGitRet

FreeGitSlot(k) ==
    /\ gitCall[k].pc = "idle"
    /\ \A j \in GitIds : j < k => gitCall[j].pc # "idle"

\* mutant: publish goes on whatever git status prints
PublishHasChanges_Always(r) == TRUE

\* line 21: statusOutput.trim() is not empty
PublishHasChanges(r) == gitStatusPorcelain(r)

\* lines 9-26: publish is called; git status --porcelain
PublishStatus(k) ==
    /\ FreeGitSlot(k)
    /\ IF ~PublishHasChanges(repo)
       THEN /\ gitCall' = [gitCall EXCEPT ![k] = DoneGit("publish")]
            /\ gitRet' = GitRet(k, "publish", FALSE, "No changes to publish")
       ELSE /\ gitCall' = [gitCall EXCEPT ![k].op = "publish", ![k].pc = "add"]
            /\ gitRet' = NoGitRet
    /\ UNCHANGED repo
    /\ GitFrame

\* line 29: git add .
PublishAdd(k, ok) ==
    /\ gitCall[k].op = "publish" /\ gitCall[k].pc = "add"
    /\ IF ok THEN repo' = gitAdd(repo) /\ GitGoes(k, "commit")
       ELSE UNCHANGED repo /\ GitThrows(k, "publish")
    /\ GitFrame

\* lines 32-38: git commit
PublishCommit(k, ok) ==
    /\ gitCall[k].op = "publish" /\ gitCall[k].pc = "commit"
    /\ IF ok /\ ~NothingToCommit(repo)
       THEN /\ repo' = gitCommit(repo)
            /\ gitCall' = [gitCall EXCEPT ![k].pc = "revparse",
                                          ![k].commit = Len(repo.commits) + 1]
            /\ gitRet' = NoGitRet
       ELSE UNCHANGED repo /\ GitThrows(k, "publish")
    /\ GitFrame

\* lines 41-44: git rev-parse HEAD
PublishRevParse(k) ==
    /\ gitCall[k].op = "publish" /\ gitCall[k].pc = "revparse"
    /\ gitCall' = [gitCall EXCEPT ![k].pc = "push", ![k].hash = repo.head]
    /\ gitRet' = NoGitRet
    /\ UNCHANGED repo
    /\ GitFrame

\* mutant: a failed push is not told apart
PushWarning_None(ok) == "-"

\* line 59
PushWarning(ok) == IF ok THEN "-" ELSE "push_failed"

\* lines 47-74: git push, and the two success results
PublishPush(k, ok) ==
    /\ gitCall[k].op = "publish" /\ gitCall[k].pc = "push"
    /\ repo' = IF ok THEN gitPush(repo) ELSE repo
    /\ GitReturn(k, [GitRet(k, "publish", TRUE,
                            IF ok THEN "Changes published successfully!"
                            ELSE "Changes committed locally but push failed")
                        EXCEPT !.commitHash = gitCall[k].hash,
                               !.warning = PushWarning(ok),
                               !.pushed = IF ok THEN "ok" ELSE "failed"])
    /\ GitFrame

\* lines 164-168: the result of a rollback refused for local changes
RollbackBlockedByLocalChanges ==
    "Rollback is blocked because there are unpublished local changes. Publish or clear local changes first."

\* lines 149-169: rollbackToCommit is called; the hash is looked at, then
\* git status --porcelain
RollbackStatus(k, target) ==
    /\ FreeGitSlot(k)
    /\ IF ~WellFormed(target)
       THEN /\ gitCall' = [gitCall EXCEPT ![k] = DoneGit("rollback")]
            /\ gitRet' = GitRet(k, "rollback", FALSE, "Invalid commit hash")
       ELSE IF gitStatusPorcelain(repo)
       THEN /\ gitCall' = [gitCall EXCEPT ![k] = DoneGit("rollback")]
            /\ gitRet' = GitRet(k, "rollback", FALSE, RollbackBlockedByLocalChanges)
       ELSE /\ gitCall' = [gitCall EXCEPT ![k].op = "rollback",
                                          ![k].pc = "verify",
                                          ![k].target = target]
            /\ gitRet' = NoGitRet
    /\ UNCHANGED repo
    /\ GitFrame

\* lines 171-173: git rev-parse --verify
RollbackVerify(k) ==
    /\ gitCall[k].op = "rollback" /\ gitCall[k].pc = "verify"
    /\ IF revParseVerify(repo, gitCall[k].target)
       THEN GitGoes(k, "current")
       ELSE GitThrows(k, "rollback")
    /\ UNCHANGED repo
    /\ GitFrame

\* lines 175-185: git rev-parse HEAD and the comparison
RollbackCurrent(k) ==
    /\ gitCall[k].op = "rollback" /\ gitCall[k].pc = "current"
    /\ IF SameHash(repo.head, gitCall[k].target)
       THEN GitReturn(k, GitRet(k, "rollback", FALSE,
                "This version is already current. Nothing to roll back."))
       ELSE GitGoes(k, "restore")
    /\ UNCHANGED repo
    /\ GitFrame

\* lines 187-189: git restore
RollbackRestore(k, ok) ==
    /\ gitCall[k].op = "rollback" /\ gitCall[k].pc = "restore"
    /\ IF ok
       THEN /\ repo' = gitRestore(repo, gitCall[k].target.commit)
            /\ gitCall' = [gitCall EXCEPT ![k].pc = "status",
                                          ![k].restored = (repo' # repo)]
            /\ gitRet' = NoGitRet
       ELSE UNCHANGED repo /\ GitThrows(k, "rollback")
    /\ GitFrame

\* lines 191-199: git status --porcelain again
RollbackStaged(k) ==
    /\ gitCall[k].op = "rollback" /\ gitCall[k].pc = "status"
    /\ IF ~gitStatusPorcelain(repo)
       THEN GitReturn(k, GitRet(k, "rollback", FALSE,
                                "Rollback produced no file changes."))
       ELSE GitGoes(k, "commit")
    /\ UNCHANGED repo
    /\ GitFrame

\* lines 201-203: git commit
RollbackCommit(k, ok) ==
    /\ gitCall[k].op = "rollback" /\ gitCall[k].pc = "commit"
    /\ IF ok /\ ~NothingToCommit(repo)
       THEN /\ repo' = gitCommit(repo)
            /\ gitCall' = [gitCall EXCEPT ![k].pc = "revparse",
                                          ![k].commit = Len(repo.commits) + 1]
            /\ gitRet' = NoGitRet
       ELSE UNCHANGED repo /\ GitThrows(k, "rollback")
    /\ GitFrame

\* lines 205-208: git rev-parse HEAD
RollbackRevParse(k) ==
    /\ gitCall[k].op = "rollback" /\ gitCall[k].pc = "revparse"
    /\ gitCall' = [gitCall EXCEPT ![k].pc = "push", ![k].hash = repo.head]
    /\ gitRet' = NoGitRet
    /\ UNCHANGED repo
    /\ GitFrame

\* lines 210-222: git push and the success result
RollbackPush(k, ok) ==
    /\ gitCall[k].op = "rollback" /\ gitCall[k].pc = "push"
    /\ IF ok
       THEN /\ repo' = gitPush(repo)
            /\ GitReturn(k, [GitRet(k, "rollback", TRUE,
                                    "Rolled back successfully")
                                EXCEPT !.commitHash = gitCall[k].hash,
                                       !.pushed = "ok"])
       ELSE UNCHANGED repo /\ GitThrows(k, "rollback")
    /\ GitFrame

\* the agent (or anybody) edits files of the site folder
AgentEdit(tree) ==
    /\ tree # repo.worktree
    /\ repo' = [repo EXCEPT !.worktree = tree]
    /\ gitRet' = NoGitRet
    /\ UNCHANGED gitCall
    /\ GitFrame

\* ------------------------------------------------------------------ rows
NoRow == [status |-> "none", pid |-> NoPid, port |-> NoPort, lastActivity |-> 0]

\* A process is unborn, alive, exited (it has died and the manager has not
\* yet been told: its exit event is pending and kill(pid, 0) still finds the
\* unreaped child) or dead (reaped, the exit event delivered).
Unborn == [state |-> "unborn", cust |-> "-", port |-> NoPort,
           listening |-> FALSE, exitHandler |-> FALSE]
Dead == [state |-> "dead", cust |-> "-", port |-> NoPort,
         listening |-> FALSE, exitHandler |-> FALSE]

IdleStart == [pc |-> "idle", cust |-> "-", port |-> NoPort, child |-> NoPid,
              alive |-> FALSE, heard |-> FALSE]
IdleGs == [pc |-> "idle", status |-> "none", pid |-> NoPid, port |-> NoPort,
           alive |-> FALSE]
IdleStop == [pc |-> "idle", pid |-> NoPid]
IdleSweep == [pc |-> "idle", queue |-> <<>>, pid |-> NoPid, selected |-> {}]

\* the `code` argument of an exit event: 0, non-zero, or null when the
\* process was terminated by a signal
NoExitCode == -1
ExitCodes == {0, 1, NoExitCode}

\* line 942: code !== 0 && code !== null
Abnormal(code) == code # 0 /\ code # NoExitCode

\* `heard`: for a customer with a fixed port, whether something was listening
\* on that port when the call looked: at its port probe when the call got
\* that far, at the invocation otherwise.  `swept`: the rows a completed
\* sweep selected.  `code`: the exit code an exit event carried.
NoRet == [op |-> "-", cust |-> "-", result |-> "-", status |-> "-",
          pid |-> NoPid, alive |-> FALSE, reachable |-> FALSE,
          heard |-> FALSE, swept |-> {}, code |-> NoExitCode]

Ret(op, c, result) == [NoRet EXCEPT !.op = op, !.cust = c, !.result = result]

\* ------------------------------------------------------------ OS probes
\* process.kill(pid, 0)
isProcessAlive(pid) == pid \in Pids /\ procs[pid].state \in {"alive", "exited"}

isPortReachable(port) ==
    \/ port \in extListen
    \/ \E p \in Pids : /\ procs[p].state = "alive"
                       /\ procs[p].listening
                       /\ procs[p].port = port

\* find-free-port: the first port of the scanned range that can be bound
FreePorts == { q \in RangePorts : ~isPortReachable(q) }
findFreePort == IF FreePorts = {} THEN NoPort
                ELSE CHOOSE q \in FreePorts : \A r \in FreePorts : q <= r

NextPid == Cardinality({ p \in Pids : procs[p].state # "unborn" }) + 1

Active(k) == startCall[k].pc # "idle"
FixedPort(c) == customers[c] # NoPort

\* the service calls that are suspended at an await
InFlight ==
    Cardinality({ k \in StartIds : startCall[k].pc # "idle" })
    + Cardinality({ c \in Customers : gsCall[c].pc # "idle" })
    + Cardinality({ c \in Customers : stopCall[c].pc # "idle" })
    + (IF sweep.pc # "idle" THEN 1 ELSE 0)
MayCall == InFlight < MaxInFlight
FreeSlot(k) == /\ ~Active(k)
               /\ \A j \in StartIds : j < k => Active(j)

\* ---------------------------------------------------------------- Init
Fresh ==
    /\ devServers = [c \in Customers |-> NoRow]
    /\ runningProcesses = [c \in Customers |-> NoPid]
    /\ startingCustomers = {}
    /\ procs = [p \in Pids |-> Unborn]
    /\ extListen = {}
    /\ startCall = [k \in StartIds |-> IdleStart]
    /\ gsCall = [c \in Customers |-> IdleGs]
    /\ stopCall = [c \in Customers |-> IdleStop]
    /\ sweep = IdleSweep
    /\ now = 0
    /\ ret = NoRet

\* the other services when nobody has called them
OthersIdle == TriageIdle /\ ChatIdle /\ GitIdle

\* the preview manager at rest, nobody's preview configured
DevIdle == customers = DynamicConfig /\ Fresh

Init == customers \in FixedConfigs /\ Fresh /\ OthersIdle

InitPorts == customers = DynamicConfig /\ Fresh /\ OthersIdle

\* ================================================================= start
\* mutant: the guard is gone
StartGuardPasses_Unguarded(c) == TRUE

\* the in-flight guard at the head of start()
StartGuardPasses(c) == c \notin startingCustomers

AddMarker(c) == startingCustomers \cup {c}

\* the `finally` of start(): every exit releases the marker
ReleaseMarker(markers, c) == markers \ {c}

\* mutant: nothing is written before the spawn
PersistStarting_Skipped(c, port) == devServers

\* first write of start(): the row becomes starting, pid null, before the spawn
PersistStarting(c, port) ==
    [devServers EXCEPT ![c] =
        [status |-> "starting", pid |-> NoPid, port |-> port, lastActivity |-> now]]

\* second write of start(), after the spawn.  childProcess.pid is undefined
\* when the spawn failed; drizzle leaves an undefined value out of the SET,
\* so the pid of the row stays.
PersistSpawned(c, port, child) ==
    [devServers EXCEPT ![c] =
        [status |-> "starting",
         pid |-> IF child = NoPid THEN devServers[c].pid ELSE child,
         port |-> port, lastActivity |-> now]]

\* third write of start(): an UPDATE (it keeps the row's port)
PersistRunning(c, child) ==
    [devServers EXCEPT ![c].status = "running",
                       ![c].pid = IF child = NoPid THEN @ ELSE child,
                       ![c].lastActivity = now]

\* mutant: the update is lost
SetStatusNoPid_Lost(dbs, c, status) == dbs

\* UPDATE ... SET status, pid = null: the reset of a stale row, stop(), the
\* handlers and getStatus() all use it.  It changes nothing when there is no row.
SetStatusNoPid(dbs, c, status) ==
    IF dbs[c].status = "none" THEN dbs
    ELSE [dbs EXCEPT ![c].status = status, ![c].pid = NoPid]

OutsideRange(port) ==
    port < getDevServerPortRange.start \/ port > getDevServerPortRange.end

\* mutant: a fixed port that is taken is replaced by a free one
AllocatePort_Substitute(c) ==
    IF findFreePort = NoPort
    THEN [err |-> "NoFreePorts", port |-> NoPort, heard |-> FALSE]
    ELSE [err |-> "-",
          port |-> IF FixedPort(c) /\ ~isPortReachable(customers[c])
                   THEN customers[c] ELSE findFreePort,
          heard |-> FixedPort(c) /\ isPortReachable(customers[c])]

\* the port start() will use, or the error it throws
AllocatePort(c) ==
    LET desiredPort == customers[c] IN
    IF desiredPort # NoPort
    THEN IF isPortReachable(desiredPort)
         THEN [err |-> "PortInUse", port |-> NoPort, heard |-> TRUE]
         ELSE [err |-> "-", port |-> desiredPort, heard |-> FALSE]
    ELSE IF findFreePort = NoPort
         THEN [err |-> "NoFreePorts", port |-> NoPort, heard |-> FALSE]
         ELSE [err |-> "-", port |-> findFreePort, heard |-> FALSE]

StartRet(k, c, result) ==
    [Ret("start", c, result) EXCEPT !.heard = startCall[k].heard]

\* start() returns or throws `result`: the frame goes, the marker is released
Finish(k, c, result, markers) ==
    /\ startCall' = [startCall EXCEPT ![k] = IdleStart]
    /\ startingCustomers' = ReleaseMarker(markers, c)
    /\ ret' = StartRet(k, c, result)

\* lines 589-618: the re-read after a possible reset, then the range check of
\* a fixed port; what is left is the await of the port probe or scan
AfterRunningCheck(k, c, dbs, frame, markers) ==
    /\ devServers' = dbs
    /\ IF dbs[c].status = "running"
       THEN /\ startCall' = [startCall EXCEPT ![k] = IdleStart]
            /\ startingCustomers' = ReleaseMarker(markers, c)
            /\ ret' = [Ret("start", c, "already_running") EXCEPT
                          !.heard = frame.heard]
       ELSE IF customers[c] # NoPort /\ OutsideRange(customers[c])
       THEN /\ startCall' = [startCall EXCEPT ![k] = IdleStart]
            /\ startingCustomers' = ReleaseMarker(markers, c)
            /\ ret' = [Ret("start", c, "PortOutsideRange") EXCEPT
                          !.heard = frame.heard]
       ELSE /\ startCall' = [startCall EXCEPT ![k] = [frame EXCEPT !.pc = "allocPort"]]
            /\ startingCustomers' = markers
            /\ ret' = NoRet

\* lines 523-570: guard, marker, site lookup, the read of the row
StartBegin(k, c) ==
    /\ MayCall
    /\ FreeSlot(k)
    /\ StartGuardPasses(c)
    /\ \E siteExists \in BOOLEAN :
         LET row == devServers[c]
             heard == customers[c] # NoPort /\ isPortReachable(customers[c])
             frame == [IdleStart EXCEPT !.cust = c, !.heard = heard]
         IN
         IF ~siteExists
         THEN /\ startCall' = startCall
              /\ startingCustomers' = ReleaseMarker(AddMarker(c), c)
              /\ ret' = [Ret("start", c, "SiteNotFound") EXCEPT !.heard = heard]
              /\ devServers' = devServers
         ELSE IF row.status = "starting"
         THEN /\ startCall' = startCall
              /\ startingCustomers' = ReleaseMarker(AddMarker(c), c)
              /\ ret' = [Ret("start", c, "starting") EXCEPT !.heard = heard]
              /\ devServers' = devServers
         ELSE IF row.status = "running"
         THEN /\ startCall' = [startCall EXCEPT ![k] =
                    [frame EXCEPT !.pc = "checkRunning",
                                  !.port = row.port,
                                  !.child = row.pid,
                                  !.alive = isProcessAlive(row.pid)]]
              /\ startingCustomers' = AddMarker(c)
              /\ ret' = NoRet
              /\ devServers' = devServers
         ELSE AfterRunningCheck(k, c, devServers, frame, AddMarker(c))
    /\ UNCHANGED <<customers, runningProcesses, procs, extListen, gsCall,
                   stopCall, sweep, now>>
    /\ UNCHANGED others

\* lines 524-526: a start for a customer whose marker is set throws at once
StartRejected(c) ==
    /\ ~StartGuardPasses(c)
    /\ ret' = [Ret("start", c, "StartInProgress") EXCEPT
                  !.heard = customers[c] # NoPort /\ isPortReachable(customers[c])]
    /\ UNCHANGED <<customers, devServers, runningProcesses, startingCustomers,
                   procs, extListen, startCall, gsCall, stopCall, sweep, now>>
    /\ UNCHANGED others

\* lines 570-602: the port probe of a running row has answered
StartCheckRunning(k) ==
    LET f == startCall[k]
        c == f.cust
        reachable == isPortReachable(f.port)
    IN
    /\ f.pc = "checkRunning"
    /\ IF ~f.alive \/ ~reachable
       THEN AfterRunningCheck(k, c, SetStatusNoPid(devServers, c, "stopped"),
                              [f EXCEPT !.port = NoPort, !.child = NoPid,
                                        !.alive = FALSE],
                              startingCustomers)
       ELSE /\ Finish(k, c, "already_running", startingCustomers)
            /\ devServers' = devServers
    /\ UNCHANGED <<customers, runningProcesses, procs, extListen, gsCall,
                   stopCall, sweep, now>>
    /\ UNCHANGED others

\* lines 619-653: the probe or scan has answered; persist starting
StartAllocPort(k) ==
    LET f == startCall[k]
        c == f.cust
        a == AllocatePort(c)
    IN
    /\ f.pc = "allocPort"
    /\ IF a.err # "-"
       THEN /\ startCall' = [startCall EXCEPT ![k] = IdleStart]
            /\ startingCustomers' = ReleaseMarker(startingCustomers, c)
            /\ ret' = [Ret("start", c, a.err) EXCEPT !.heard = a.heard]
            /\ devServers' = devServers
       ELSE /\ startCall' = [startCall EXCEPT ![k] =
                                [f EXCEPT !.pc = "devtools", !.port = a.port,
                                          !.heard = a.heard]]
            /\ startingCustomers' = startingCustomers
            /\ ret' = NoRet
            /\ devServers' = PersistStarting(c, a.port)
    /\ UNCHANGED <<customers, runningProcesses, procs, extListen, gsCall,
                   stopCall, sweep, now>>
    /\ UNCHANGED others

\* lines 830-911: spawn, error handler, runningProcesses.set, second write.
\* A failed spawn gives a child without pid whose error event runs the error
\* handler before any I/O: the handle set at line 889 is deleted again and the
\* row (pid null, never equal to undefined) is left alone.
Spawn(k, spawnOk) ==
    LET f == startCall[k]
        c == f.cust
        child == IF spawnOk THEN NextPid ELSE NoPid
    IN
    /\ spawnOk => NextPid <= MaxProcs
    /\ procs' = IF spawnOk
                THEN [procs EXCEPT ![child] =
                        [state |-> "alive", cust |-> c, port |-> f.port,
                         listening |-> FALSE, exitHandler |-> FALSE]]
                ELSE procs
    /\ runningProcesses' = [runningProcesses EXCEPT ![c] = child]
    /\ devServers' = PersistSpawned(c, f.port, child)
    /\ startCall' = [startCall EXCEPT ![k] =
                        [f EXCEPT !.pc = "polling", !.child = child]]
    /\ ret' = NoRet
    /\ UNCHANGED <<customers, startingCustomers, extListen, gsCall, stopCall,
                   sweep, now>>

\* lines 655-772: the devtools port scan has answered; a manifest project
\* without node_modules runs the install first
StartDevtools(k) ==
    /\ startCall[k].pc = "devtools"
    /\ \/ /\ startCall' = [startCall EXCEPT ![k].pc = "install"]
          /\ ret' = NoRet
          /\ UNCHANGED <<customers, devServers, runningProcesses,
                         startingCustomers, procs, extListen, gsCall, stopCall,
                         sweep, now>>
       \/ \E spawnOk \in BOOLEAN : Spawn(k, spawnOk)
    /\ UNCHANGED others

\* lines 777-822: the install subprocess has exited
StartInstallDone(k) ==
    /\ startCall[k].pc = "install"
    /\ \/ /\ Finish(k, startCall[k].cust, "DependencyInstallFailed",
                    startingCustomers)
          /\ UNCHANGED <<customers, devServers, runningProcesses, procs,
                         extListen, gsCall, stopCall, sweep, now>>
       \/ \E spawnOk \in BOOLEAN : Spawn(k, spawnOk)
    /\ UNCHANGED others

\* lines 913-971: a probe of waitForPortReachable has answered: ready, or the
\* 20 s are over
StartPoll(k) ==
    LET f == startCall[k]
        c == f.cust
    IN
    /\ f.pc = "polling"
    /\ IF isPortReachable(f.port)
       THEN /\ devServers' = PersistRunning(c, f.child)
            /\ procs' = IF isProcessAlive(f.child)   \* exit event not yet emitted
                        THEN [procs EXCEPT ![f.child].exitHandler = TRUE]
                        ELSE procs
            /\ Finish(k, c, "started", startingCustomers)
       ELSE /\ devServers' = devServers
            /\ procs' = procs
            /\ Finish(k, c, "DevServerNotReady", startingCustomers)
    /\ UNCHANGED <<customers, runningProcesses, extListen, gsCall, stopCall,
                   sweep, now>>
    /\ UNCHANGED others

\* ============================================================= getStatus
GsRet(c, status, pid, f, reachable) ==
    [Ret("getStatus", c, "row") EXCEPT !.status = status, !.pid = pid,
                                       !.alive = f.alive,
                                       !.reachable = reachable]

\* lines 1025-1048 and 1077-1081: the read of the row and, for a starting or a
\* running row, the liveness probe; the port probe is awaited
GetStatusBegin(c) ==
    LET row == devServers[c] IN
    /\ MayCall
    /\ gsCall[c].pc = "idle"
    /\ IF row.status \in {"starting", "running"}
       THEN /\ gsCall' = [gsCall EXCEPT ![c] =
                    [pc |-> "probe", status |-> row.status, pid |-> row.pid,
                     port |-> row.port, alive |-> isProcessAlive(row.pid)]]
            /\ ret' = NoRet
       ELSE /\ gsCall' = gsCall
            /\ ret' = IF row.status = "none"
                      THEN Ret("getStatus", c, "null")
                      ELSE [Ret("getStatus", c, "row") EXCEPT
                               !.status = row.status, !.pid = row.pid]
    /\ UNCHANGED <<customers, devServers, runningProcesses, startingCustomers,
                   procs, extListen, startCall, stopCall, sweep, now>>
    /\ UNCHANGED others

\* lines 1050-1097: the port probe has answered
GetStatusEnd(c) ==
    LET f == gsCall[c]
        reachable == isPortReachable(f.port)
    IN
    /\ f.pc = "probe"
    /\ gsCall' = [gsCall EXCEPT ![c] = IdleGs]
    /\ IF f.status = "starting" /\ reachable
       THEN /\ devServers' = [devServers EXCEPT ![c].status = "running",
                                                ![c].lastActivity = now]
            /\ ret' = GsRet(c, "running", f.pid, f, reachable)
       ELSE IF f.status = "starting" /\ ~f.alive
       THEN /\ devServers' = SetStatusNoPid(devServers, c, "error")
            /\ ret' = GsRet(c, "error", NoPid, f, reachable)
       ELSE IF f.status = "running" /\ (~f.alive \/ ~reachable)
       THEN /\ devServers' = SetStatusNoPid(devServers, c, "stopped")
            /\ ret' = GsRet(c, "stopped", NoPid, f, reachable)
       ELSE /\ devServers' = devServers
            /\ ret' = GsRet(c, f.status, f.pid, f, reachable)
    /\ UNCHANGED <<customers, runningProcesses, startingCustomers, procs,
                   extListen, startCall, stopCall, sweep, now>>
    /\ UNCHANGED others

\* ================================================================== stop
\* line 991-994: stop() kills only a running row with a pid whose process
\* handle is still in the map
NeedsKill(dbs, handles, c) ==
    /\ dbs[c].pid # NoPid
    /\ dbs[c].status = "running"
    /\ handles[c] # NoPid

\* tree-kill has sent SIGTERM to the tree of `pid`, unless it failed: the
\* process dies, its exit event is still to come
TreeKill(pid, err) ==
    IF ~err /\ pid \in Pids /\ procs[pid].state = "alive"
    THEN [procs EXCEPT ![pid].state = "exited", ![pid].listening = FALSE]
    ELSE procs

\* lines 977-996 and 1016-1022
StopBegin(c) ==
    /\ MayCall
    /\ stopCall[c].pc = "idle"
    /\ IF devServers[c].status = "none"
       THEN /\ ret' = Ret("stop", c, "not_found")
            /\ UNCHANGED <<devServers, stopCall>>
       ELSE IF NeedsKill(devServers, runningProcesses, c)
       THEN /\ stopCall' = [stopCall EXCEPT ![c] =
                               [pc |-> "kill", pid |-> devServers[c].pid]]
            /\ ret' = NoRet
            /\ UNCHANGED devServers
       ELSE /\ devServers' = SetStatusNoPid(devServers, c, "stopped")
            /\ ret' = Ret("stop", c, "stopped")
            /\ UNCHANGED stopCall
    /\ UNCHANGED <<customers, runningProcesses, startingCustomers, procs,
                   extListen, startCall, gsCall, sweep, now>>
    /\ UNCHANGED others

\* lines 997-1011: tree-kill's callback
StopKillDone(c) ==
    /\ stopCall[c].pc = "kill"
    /\ \E err \in BOOLEAN : procs' = TreeKill(stopCall[c].pid, err)
    /\ runningProcesses' = [runningProcesses EXCEPT ![c] = NoPid]
    /\ devServers' = SetStatusNoPid(devServers, c, "stopped")
    /\ stopCall' = [stopCall EXCEPT ![c] = IdleStop]
    /\ ret' = [Ret("stop", c, "stopped") EXCEPT !.pid = stopCall[c].pid]
    /\ UNCHANGED <<customers, startingCustomers, extListen, startCall, gsCall,
                   sweep, now>>
    /\ UNCHANGED others

\* ======================================================= cleanupInactive
\* mutant: the sweep ignores the time of the last activity
Inactive_AnyRunning(c) == devServers[c].status = "running"

\* lines 1108-1119: the rows the sweep selects, running rows whose
\* lastActivity is before the cutoff
Inactive(c) ==
    /\ devServers[c].status = "running"
    /\ devServers[c].lastActivity < now - IdleTimeoutMinutes

Orders(S) ==
    { q \in [1..Cardinality(S) -> S] : \A i, j \in DOMAIN q : q[i] = q[j] => i = j }

\* the stops of the loop that need no tree-kill run in one task: the index of
\* the first queued customer whose stop awaits tree-kill
FirstKill(q, dbs, handles) ==
    LET K == { i \in 1..Len(q) : NeedsKill(dbs, handles, q[i]) } IN
    IF K = {} THEN Len(q) + 1 ELSE CHOOSE i \in K : \A j \in K : i <= j

MarkStopped(dbs, S) ==
    [c \in Customers |->
        IF c \in S /\ dbs[c].status # "none"
        THEN [dbs[c] EXCEPT !.status = "stopped", !.pid = NoPid]
        ELSE dbs[c]]

\* the loop of cleanupInactive from the head of `q` to its next await
RunSweep(q, sel, dbs, handles) ==
    LET i == FirstKill(q, dbs, handles)
        done == { q[j] : j \in 1..(i - 1) }
    IN
    /\ devServers' = MarkStopped(dbs, done)
    /\ IF i > Len(q)
       THEN /\ sweep' = IdleSweep
            /\ ret' = [Ret("cleanupInactive", "-", "done") EXCEPT !.swept = sel]
       ELSE /\ sweep' = [pc |-> "kill", queue |-> SubSeq(q, i, Len(q)),
                         pid |-> dbs[q[i]].pid, selected |-> sel]
            /\ ret' = NoRet

cleanupInactive ==
    /\ MayCall
    /\ sweep.pc = "idle"
    /\ LET inactive == { c \in Customers : Inactive(c) } IN
       \E q \in Orders(inactive) :
          RunSweep(q, inactive, devServers, runningProcesses)
    /\ UNCHANGED <<customers, runningProcesses, startingCustomers, procs,
                   extListen, startCall, gsCall, stopCall, now>>
    /\ UNCHANGED others

\* tree-kill's callback in the stop() the sweep awaits, then the loop goes on
SweepKillDone ==
    LET c == Head(sweep.queue)
        handles == [runningProcesses EXCEPT ![c] = NoPid]
    IN
    /\ sweep.pc = "kill"
    /\ \E err \in BOOLEAN : procs' = TreeKill(sweep.pid, err)
    /\ runningProcesses' = handles
    /\ RunSweep(Tail(sweep.queue), sweep.selected,
                SetStatusNoPid(devServers, c, "stopped"), handles)
    /\ UNCHANGED <<customers, startingCustomers, extListen, startCall, gsCall,
                   stopCall, now>>
    /\ UNCHANGED others

\* lines 1100-1105
updateActivity(c) ==
    /\ devServers[c].status # "none"
    /\ devServers' = [devServers EXCEPT ![c].lastActivity = now]
    /\ ret' = NoRet
    /\ UNCHANGED <<customers, runningProcesses, startingCustomers, procs,
                   extListen, startCall, gsCall, stopCall, sweep, now>>
    /\ UNCHANGED others

\* ============================================================ environment
\* a preview process binds its port
ProcListen(p) ==
    /\ procs[p].state = "alive"
    /\ ~procs[p].listening
    /\ ~isPortReachable(procs[p].port)
    /\ procs' = [procs EXCEPT ![p].listening = TRUE]
    /\ ret' = NoRet
    /\ UNCHANGED <<customers, devServers, runningProcesses, startingCustomers,
                   extListen, startCall, gsCall, stopCall, sweep, now>>
    /\ UNCHANGED others

\* a preview process dies by itself
ProcDie(p) ==
    /\ procs[p].state = "alive"
    /\ procs' = [procs EXCEPT ![p].state = "exited", ![p].listening = FALSE]
    /\ ret' = NoRet
    /\ UNCHANGED <<customers, devServers, runningProcesses, startingCustomers,
                   extListen, startCall, gsCall, stopCall, sweep, now>>
    /\ UNCHANGED others

\* lines 935-965: the exit event of a process, with its exit code; the exit
\* handler runs if start() got as far as registering it, and does the same
\* for every code (line 942 only logs)
ProcExit(p) ==
    LET c == procs[p].cust IN
    /\ procs[p].state = "exited"
    /\ procs' = [procs EXCEPT ![p] = Dead]
    /\ IF procs[p].exitHandler
       THEN /\ runningProcesses' = [runningProcesses EXCEPT ![c] = NoPid]
            /\ devServers' = IF devServers[c].pid = p
                             THEN SetStatusNoPid(devServers, c, "stopped")
                             ELSE devServers
       ELSE UNCHANGED <<runningProcesses, devServers>>
    /\ \E code \in ExitCodes :
          ret' = [Ret("exit", c, "-") EXCEPT !.pid = p, !.code = code]
    /\ UNCHANGED <<customers, startingCustomers, extListen, startCall, gsCall,
                   stopCall, sweep, now>>
    /\ UNCHANGED others

\* a foreign program binds or releases a port
ExtListen(port) ==
    /\ IF port \in extListen
       THEN extListen' = extListen \ {port}
       ELSE /\ ~isPortReachable(port)
            /\ extListen' = extListen \cup {port}
    /\ ret' = NoRet
    /\ UNCHANGED <<customers, devServers, runningProcesses, startingCustomers,
                   procs, startCall, gsCall, stopCall, sweep, now>>
    /\ UNCHANGED others

Tick(minutes) ==
    /\ now + minutes <= MaxNow
    /\ now' = now + minutes
    /\ ret' = NoRet
    /\ UNCHANGED <<customers, devServers, runningProcesses, startingCustomers,
                   procs, extListen, startCall, gsCall, stopCall, sweep>>
    /\ UNCHANGED others

\* ================================================================ claims
LiveProcs(c) == { p \in Pids : procs[p].state = "alive" /\ procs[p].cust = c }
InFlightStarts(c) == { k \in StartIds : Active(k) /\ startCall[k].cust = c }

\* C1: a start(c) issued while another start(c) is in flight throws
\* StartInProgress and changes nothing (no row, process, handle, marker or
\* frame); no second frame for c is ever created; the marker of c is set
\* exactly while a start(c) is in flight.
C1_StartMutualExclusion ==
    [][ /\ \A c \in Customers :
            /\ Cardinality(InFlightStarts(c))' <= 1
            /\ (c \in startingCustomers)' <=> (InFlightStarts(c) # {})'
            /\ InFlightStarts(c) # {} => InFlightStarts(c)' \subseteq InFlightStarts(c)
        /\ (ret'.op = "start" /\ ret'.result = "StartInProgress")
              => /\ InFlightStarts(ret'.cust) # {}
                 /\ UNCHANGED <<devServers, procs, runningProcesses,
                                startingCustomers, startCall>>
      ]_vars

\* C1 witness: a second start is rejected while the first one is polling
\* for its spawned process
C1_Witness ==
    /\ ret.op = "start" /\ ret.result = "StartInProgress"
    /\ \E k \in StartIds : /\ startCall[k].cust = ret.cust
                           /\ startCall[k].pc = "polling"
                           /\ startCall[k].child # NoPid

\* C2: at most one live preview process per customer
C2_AtMostOneLiveProcess ==
    \A c \in Customers : Cardinality(LiveProcs(c)) <= 1

\* C3: a getStatus that returns running returns a pid, and its probes found
\* the process alive and the port reachable
C3_RunningMeansLive ==
    (ret.op = "getStatus" /\ ret.status = "running")
        => (ret.pid # NoPid /\ ret.alive /\ ret.reachable)

\* C4 as claimed: for a customer with a fixed port, a start (of an existing
\* site, past the in-flight guard) fails with PortInUse if and only if
\* something is listening on the port
C4_PortInUseIffListening ==
    (ret.op = "start" /\ FixedPort(ret.cust)
        /\ ret.result \notin {"SiteNotFound", "StartInProgress"})
        => ((ret.result = "PortInUse") <=> ret.heard)

NoSubstitution(c) ==
    /\ devServers[c].status \in {"starting", "running"}
          => devServers[c].port = customers[c]
    /\ \A p \in Pids : (procs[p].state \in {"alive", "exited"} /\ procs[p].cust = c)
          => procs[p].port = customers[c]

\* C4 amended: for a customer with a fixed port, start fails with PortInUse
\* if and only if the call reaches the probe of the fixed port (the site
\* exists, the row is neither starting nor a healthy running one, the port is
\* inside the range) and the probe finds a listener; the port of a starting or
\* running row and of every spawned process is the fixed port.
C4_PortInUseIffProbeHears ==
    [][ \A c \in Customers : FixedPort(c) =>
          /\ (ret'.op = "start" /\ ret'.cust = c /\ ret'.result = "PortInUse")
                <=> (\E k \in StartIds :
                        /\ startCall[k].pc = "allocPort"
                        /\ startCall[k].cust = c
                        /\ startCall'[k].pc # "allocPort"
                        /\ isPortReachable(customers[c]))
          /\ NoSubstitution(c)'
      ]_vars

\* C4 witness: a start has failed with PortInUse and the port is taken
C4_Witness ==
    /\ ret.op = "start" /\ ret.result = "PortInUse"
    /\ FixedPort(ret.cust) /\ isPortReachable(customers[ret.cust])

\* C5: a start that has failed after it began leaves the row in error or
\* stopped
C5_FailedStartIsTerminal ==
    (ret.op = "start"
        /\ ret.result \in {"DependencyInstallFailed", "DevServerNotReady"})
        => devServers[ret.cust].status \in {"error", "stopped"}

\* a process for which a newer process of the same customer has been spawned
Superseded(p) ==
    \E q \in Pids : /\ q > p
                    /\ procs[q].state = "alive"
                    /\ procs[q].cust = procs[p].cust

\* C6: the exit of a superseded process changes neither the row nor the
\* in-memory handle of its customer
C6_StaleExitChangesNothing ==
    [][ \A p \in Pids :
          (procs[p].state = "exited" /\ procs'[p].state = "dead" /\ Superseded(p))
            => /\ devServers'[procs[p].cust] = devServers[procs[p].cust]
               /\ runningProcesses'[procs[p].cust] = runningProcesses[procs[p].cust]
      ]_vars

\* C7: a stop(c) that finds no row reports success and changes nothing; a
\* stop(c) that returns leaves the row stopped with a null pid;
\* and when the row it marks stopped was running with a live recorded
\* process, that stop has had tree-kill's acknowledgement for this process
\* (whether or not tree-kill reported an error).
C7_StopKillsBeforeStopped ==
    [][ (ret'.op = "stop") =>
          LET c == ret'.cust IN
          /\ (ret'.result = "not_found") <=> (devServers[c].status = "none")
          /\ ret'.result = "not_found" => UNCHANGED <<devServers, procs, runningProcesses>>
          /\ ret'.result # "not_found" =>
                /\ devServers'[c].status = "stopped"
                /\ devServers'[c].pid = NoPid
          /\ ( /\ devServers[c].status = "running"
               /\ devServers[c].pid # NoPid
               /\ procs[devServers[c].pid].state = "alive" )
                => ret'.pid = devServers[c].pid
      ]_vars

Edges ==
    { <<"none", "starting">>, <<"stopped", "starting">>, <<"error", "starting">>,
      <<"starting", "running">>, <<"starting", "error">>,
      <<"running", "stopped">> }

\* C8: every change of a persisted status is an edge of the state machine
\* (so a stop changes no row that an in-flight start has set to starting)
C8_StatusFollowsEdges ==
    [][ \A c \in Customers :
            devServers'[c].status # devServers[c].status
              => <<devServers[c].status, devServers'[c].status>> \in Edges
      ]_vars

Holders(port) ==
    { c \in Customers : /\ devServers[c].status \in {"starting", "running"}
                        /\ devServers[c].port = port }

\* the ports of the range, in order, that are free and held by no customer
\* other than c
Eligible(c) ==
    { q \in RangePorts : ~isPortReachable(q) /\ Holders(q) \subseteq {c} }

\* C9: a start of a customer without a fixed port persists the first port of
\* the range that is free and held by no other starting or running customer,
\* and throws NoFreePorts when there is none; no two starting or running
\* customers hold the same port.
C9_DistinctPorts ==
    [][ /\ \A k \in StartIds :
              LET c == startCall[k].cust IN
              (startCall[k].pc = "allocPort" /\ startCall'[k].pc # "allocPort"
                    /\ ~FixedPort(c))
                => IF Eligible(c) = {}
                   THEN ret'.op = "start" /\ ret'.result = "NoFreePorts"
                   ELSE /\ devServers'[c].status = "starting"
                        /\ devServers'[c].port \in Eligible(c)
                        /\ \A q \in Eligible(c) : devServers'[c].port <= q
        /\ \A q \in Ports : Cardinality(Holders(q))' <= 1
      ]_vars

\* a running row whose last activity is older than the idle timeout
Stale(c) ==
    /\ devServers[c].status = "running"
    /\ now - devServers[c].lastActivity > IdleTimeoutMinutes

\* C10: a sweep selects exactly the running rows whose last activity is older
\* than the idle timeout; no step of the sweep changes the row of any other
\* customer; when the sweep completes every selected row is stopped.
C10_SweepStopsExactlyTheIdle ==
    [][ (sweep' # sweep \/ ret'.op = "cleanupInactive") =>
          LET sel == IF sweep.pc = "idle"
                     THEN { c \in Customers : Stale(c) }
                     ELSE sweep.selected
          IN
          /\ sweep'.pc # "idle" => sweep'.selected = sel
          /\ \A c \in Customers \ sel : devServers'[c] = devServers[c]
          /\ ret'.op = "cleanupInactive"
                => \A c \in sel : /\ devServers'[c].status = "stopped"
                                  /\ devServers'[c].pid = NoPid
      ]_vars

\* C10 witness: a sweep has completed that stopped one customer idle for longer
\* than the timeout and left alone a running customer idle for exactly the
\* timeout
C10_Witness ==
    /\ ret.op = "cleanupInactive"
    /\ \E c, d \in Customers :
          /\ ret.swept = {c}
          /\ devServers[c].status = "stopped"
          /\ now - devServers[c].lastActivity > IdleTimeoutMinutes
          /\ devServers[d].status = "running"
          /\ now - devServers[d].lastActivity = IdleTimeoutMinutes

\* ================================================================== Next
\* ------------------------------------------------------------ request triage
Evaluated == triagePhase # "none"
Kinds(result) == [t \in DOMAIN result.triggers |-> result.triggers[t].kind]
Verdict(result) == <<result.decision, result.scope, result.confidence>>
TouchedFiles == OrEmpty(triageInput.filesModified)

\* C11: whatever the request text, the files touched and
\* agentCompletedSuccessfully, an input with agentHadError is answered
\* flag / uncertain / 0.97 with the single trigger agent_execution_error,
\* never auto
C11_AgentErrorAlwaysFlags ==
    (Evaluated /\ triageInput.agentHadError)
        => /\ Verdict(triageResult) = <<"flag", "uncertain", 97>>
           /\ triageResult.triggers = <<Trigger("agent_execution_error")>>
           /\ triageResult.decision # "auto"

\* C11 witness: an errored turn whose agent nevertheless reported success,
\* on a request and a wide, high-risk file list that the content checks
\* would have flagged as major
C11_Witness ==
    /\ Evaluated
    /\ triageInput.agentHadError
    /\ triageInput.agentCompletedSuccessfully
    /\ Len(TouchedFiles) > WideThreshold
    /\ triageResult.scope = "uncertain"
    /\ Verdict(evaluate([triageInput EXCEPT !.agentHadError = FALSE],
                        FreshLastIndex).result) = <<"flag", "major", 84>>

\* the orders in which the content checks may report
ContentKindOrders ==
    { SelectSeq(<<"major_intent", "wide_file_change_set", "high_risk_file">>,
                LAMBDA k : k \in K) :
        K \in SUBSET {"major_intent", "wide_file_change_set", "high_risk_file"} }

\* C12: the first matching rule decides: (1) agent error, (2) no success and
\* no file, (3) blank request; otherwise the triggers come in the order
\* major_intent, wide_file_change_set (more than 8 files), high_risk_file,
\* the answer is flag / major / 0.84 with a trigger and auto / minor / 0.92
\* with none, and a failed agent that touched a file is judged as a
\* successful one
C12_FirstMatchingRule ==
    Evaluated =>
        LET blank == \A i \in DOMAIN triageInput.request :
                         IsWhiteSpace(triageInput.request[i])
            r == triageResult
        IN  IF triageInput.agentHadError
            THEN Verdict(r) = <<"flag", "uncertain", 97>>
            ELSE IF ~triageInput.agentCompletedSuccessfully
                    /\ Len(TouchedFiles) = 0
            THEN Verdict(r) = <<"flag", "uncertain", 90>>
            ELSE IF blank
            THEN Verdict(r) = <<"flag", "uncertain", 90>>
            ELSE /\ Kinds(r) \in ContentKindOrders
                 /\ (\E t \in DOMAIN r.triggers :
                         Kinds(r)[t] = "wide_file_change_set")
                        <=> Len(TouchedFiles) > WideThreshold
                 /\ Kinds(r) # <<>> => Verdict(r) = <<"flag", "major", 84>>
                 /\ Kinds(r) = <<>> => Verdict(r) = <<"auto", "minor", 92>>
                 /\ r = evaluate([triageInput EXCEPT
                                     !.agentCompletedSuccessfully = TRUE],
                                 FreshLastIndex).result

\* C12 witness: a failed agent that touched files, judged by the content
\* checks, all three of which report
C12_Witness ==
    /\ Evaluated
    /\ ~triageInput.agentHadError
    /\ ~triageInput.agentCompletedSuccessfully
    /\ Kinds(triageResult)
           = <<"major_intent", "wide_file_change_set", "high_risk_file">>

\* C13: the latest evaluate of an input returned what the first one did,
\* field by field, whatever was evaluated in between
C13_SameInputSameResult ==
    Evaluated => triageResult = triageFirst

\* C13 witness: an input whose request and files match patterns, evaluated,
\* then other matching inputs evaluated, then evaluated again
C13_Witness ==
    /\ triagePhase = "again"
    /\ \E t \in DOMAIN triageResult.triggers :
           triageResult.triggers[t].kind = "major_intent"
    /\ \E t \in DOMAIN triageResult.triggers :
           triageResult.triggers[t].kind = "high_risk_file"

ReviewEdges ==
    { <<"none", "open">>, <<"open", "quoted">>, <<"quoted", "approved">>,
      <<"quoted", "rejected">> }
    \cup { <<a, "completed">> : a \in {"open", "quoted", "approved", "rejected"} }

\* C15: whatever quote, setStatus and approve do, a request's status changes
\* only along open -> quoted, quoted -> approved, quoted -> rejected and
\* non-terminal -> completed; a request for any other transition is refused
\* and leaves the status as it was
C15_StatusFollowsReviewEdges ==
    [][ \A id \in ReviewIds :
          \/ reviewRequests'[id].status = reviewRequests[id].status
          \/ <<reviewRequests[id].status, reviewRequests'[id].status>>
                 \in ReviewEdges
      ]_vars

\* C16: an open request has no quoted price
C16_OpenHasNoPrice ==
    \A id \in ReviewIds :
        reviewRequests[id].status = "open"
            => reviewRequests[id].quotedPriceCents = NoPrice

ReviewsOf(m) ==
    { r \in ReviewIds : /\ reviewRequests[r].status # "none"
                        /\ reviewRequests[r].assistantMessageId = m }

\* C17: an assistant message is flagged exactly when one review request
\* refers to it, also after an insert has failed; an unflagged one has none
C17_FlaggedIffOneReview ==
    \A m \in MsgIds :
        messages[m].role = "assistant"
            => /\ messages[m].flagged <=> Cardinality(ReviewsOf(m)) = 1
               /\ ~messages[m].flagged => ReviewsOf(m) = {}

\* a publish or rollback call enters slot k in this step
GitCalled(k, op) == gitCall[k].pc = "idle" /\ gitCall'[k].op = op

\* C18: a publish call that finds no uncommitted change in the site folder
\* returns success=false with the message "No changes to publish" at once and
\* is over: it runs no git add, commit or push, and the index, HEAD, the
\* history and the remote are as they were.
C18_CleanPublishDoesNothing ==
    [][\A k \in GitIds :
          (GitCalled(k, "publish") /\ ~gitStatusPorcelain(repo))
          => /\ gitCall'[k].pc = "done"
             /\ gitRet' = GitRet(k, "publish", FALSE, "No changes to publish")
             /\ repo' = repo]_vars

\* a publish has committed everything, and a second publish found nothing
C18_Witness ==
    /\ gitRet.op = "publish"
    /\ gitRet.message = "No changes to publish"
    /\ Len(repo.commits) > 1
    /\ ~gitStatusPorcelain(repo)

\* C19: when the git push of publish is over, publish returns success; if the
\* push failed the result carries warning push_failed, nothing of the
\* repository is touched by the failure, and the commit this call made still
\* stands locally: it is HEAD when no commit was made after it, and an
\* ancestor of HEAD when another call has committed on top of it meanwhile.  A publish result with success and
\* without the warning is returned only when the push succeeded, and then the
\* remote is at HEAD.
C19_PushFailureKeepsCommit ==
    [][/\ \A k \in GitIds :
            (gitCall[k].op = "publish" /\ gitCall[k].pc = "push"
                /\ gitCall'[k].pc = "done")
            => /\ gitRet'.success
               /\ gitRet'.commit = gitCall[k].commit
               /\ gitRet'.commit \in Ancestors(repo', repo'.head)
               /\ gitRet'.commit = Len(repo'.commits)
                      => repo'.head = gitRet'.commit
               /\ gitRet'.pushed = "failed"
                      => gitRet'.warning = "push_failed" /\ repo' = repo
       /\ (gitRet'.op = "publish" /\ gitRet'.success /\ gitRet'.warning = "-")
            => gitRet'.pushed = "ok" /\ repo'.remote = repo'.head]_vars

\* the push failed: the commit is HEAD and the remote does not have it
C19_Witness ==
    /\ gitRet.op = "publish"
    /\ gitRet.warning = "push_failed"
    /\ gitRet.success
    /\ repo.head = gitRet.commit
    /\ repo.remote # repo.head

\* C20: a rollback call that finds uncommitted changes in the site folder
\* fails with the blocked-by-local-changes error and leaves the working
\* tree, the index, HEAD and the remote as they were, whatever target commit
\* hash it was given.
C20_DirtyRollbackBlocked ==
    [][\A k \in GitIds :
          (GitCalled(k, "rollback") /\ gitStatusPorcelain(repo))
          => /\ gitCall'[k].pc = "done"
             /\ gitRet' = GitRet(k, "rollback", FALSE, RollbackBlockedByLocalChanges)
             /\ repo' = repo]_vars

\* the commit log of r is still there in q, commit for commit
LogKept(r, q) ==
    /\ Len(q.commits) >= Len(r.commits)
    /\ \A c \in 1..Len(r.commits) : q.commits[c] = r.commits[c]
    /\ Ancestors(r, r.head) \subseteq Ancestors(q, q.head)

\* C21: no step of publish or rollback rewrites history: the commit log only
\* grows and what was reachable from HEAD stays reachable.  A rollback that
\* returns success has made a new commit whose parent is the HEAD it replaced
\* and whose tree is the tree of the target commit.  A rollback whose target
\* is the current HEAD makes no commit.
C21_RollbackAppendsTargetTree ==
    [][/\ LogKept(repo, repo')
       /\ \A k \in GitIds :
            (gitCall[k].op = "rollback" /\ gitCall[k].pc = "push"
                /\ gitCall'[k].pc = "done" /\ gitRet'.success)
            => /\ gitRet'.commit \in 2..Len(repo'.commits)
               /\ gitRet'.commit \in Ancestors(repo', repo'.head)
               /\ repo'.commits[gitRet'.commit].parent = gitRet'.commit - 1
               /\ repo'.commits[gitRet'.commit].tree
                      = repo'.commits[gitCall[k].target.commit].tree
       /\ \A k \in GitIds :
            (gitCall[k].op = "rollback" /\ gitCall[k].pc = "commit"
                /\ gitCall'[k].pc # "commit"
                /\ gitCall[k].target.commit = repo.head)
            => repo'.commits = repo.commits]_vars

\* C29: a rollback that returns success=false has left the repository as it
\* found it: it has made no commit, so HEAD is where the call found it, and
\* its restore has not changed the index or the working tree.
C29_FailedRollbackChangesNothing ==
    [][\A k \in GitIds :
          (gitCall[k].op = "rollback" /\ gitCall[k].pc # "done"
              /\ gitCall'[k].pc = "done" /\ ~gitRet'.success)
          => gitRet'.commit = NoCommit /\ ~gitRet'.restored]_vars

\* C30: a review request whose status is approved has a quote: its
\* quotedPriceCents is set and greater than 0.
C30_ApprovedHasQuote ==
    \A id \in ReviewIds :
        reviewRequests[id].status = "approved"
        => /\ reviewRequests[id].quotedPriceCents # NoPrice
           /\ reviewRequests[id].quotedPriceCents > 0

\* C22: a start call gets to its spawn only through the write that makes the
\* row of its customer starting (pid null, the allocated port); the step that
\* spawns a process is taken by such a call, finds a row for the customer and
\* leaves it starting with the pid of the new process; and no process a
\* start has spawned exists while its customer has no row.
C22_StartingPersistedBeforeSpawn ==
    [][/\ \A k \in StartIds :
            (startCall[k].pc # "devtools" /\ startCall'[k].pc = "devtools")
            => /\ devServers'[startCall'[k].cust].status = "starting"
               /\ devServers'[startCall'[k].cust].pid = NoPid
               /\ devServers'[startCall'[k].cust].port = startCall'[k].port
       /\ \A p \in Pids :
            (procs[p].state = "unborn" /\ procs'[p].state # "unborn")
            => \E k \in StartIds :
                  /\ startCall[k].pc \in {"devtools", "install"}
                  /\ startCall'[k].pc = "polling"
                  /\ startCall'[k].child = p
                  /\ procs'[p].cust = startCall[k].cust
                  /\ devServers[startCall[k].cust].status # "none"
                  /\ devServers'[startCall[k].cust].status = "starting"
                  /\ devServers'[startCall[k].cust].pid = p
       /\ \A p \in Pids :
            procs'[p].state \in {"alive", "exited"}
            => devServers'[procs'[p].cust].status # "none"]_vars

\* C22 witness: a second process has been spawned for a customer whose
\* earlier start had failed, and the row is starting with its pid
C22_Witness ==
    \E k \in StartIds :
        /\ startCall[k].pc = "polling"
        /\ startCall[k].child = 2
        /\ procs[2].state = "alive"
        /\ procs[1].cust = procs[2].cust
        /\ devServers[startCall[k].cust].status = "starting"
        /\ devServers[startCall[k].cust].pid = 2

\* C23: when the port probe of a start that found a running row answers, the
\* call returns already_running, with the row, the processes and the handles
\* untouched, if the liveness probe found the recorded process and the port
\* probe finds the recorded port reachable; otherwise it leaves the row
\* stopped with a null pid and goes on as a fresh start (to the port
\* allocation, or to the range error of a fixed port).  No start returns
\* already_running in any other way.
C23_StaleRunningIsReset ==
    [][/\ \A k \in StartIds :
            (startCall[k].pc = "checkRunning" /\ startCall'[k].pc # "checkRunning")
            => IF startCall[k].alive /\ isPortReachable(startCall[k].port)
               THEN /\ ret' = StartRet(k, startCall[k].cust, "already_running")
                    /\ startCall'[k].pc = "idle"
                    /\ devServers' = devServers
                    /\ procs' = procs
                    /\ runningProcesses' = runningProcesses
               ELSE /\ devServers'[startCall[k].cust].status = "stopped"
                    /\ devServers'[startCall[k].cust].pid = NoPid
                    /\ procs' = procs
                    /\ ret'.result # "already_running"
                    /\ \/ startCall'[k].pc = "allocPort"
                       \/ /\ startCall'[k].pc = "idle"
                          /\ ret'.result = "PortOutsideRange"
       /\ (ret'.op = "start" /\ ret'.result = "already_running")
            => \E k \in StartIds :
                  /\ startCall[k].pc = "checkRunning"
                  /\ startCall'[k].pc = "idle"
                  /\ startCall[k].cust = ret'.cust
                  /\ startCall[k].alive
                  /\ isPortReachable(startCall[k].port)]_vars

\* C23 witness: the process of a running row has died, a start has found the
\* port silent, reset the row and is on its way to a fresh start
C23_Witness ==
    \E k \in StartIds :
        /\ startCall[k].pc = "allocPort"
        /\ devServers[startCall[k].cust].status = "stopped"
        /\ devServers[startCall[k].cust].pid = NoPid
        /\ runningProcesses[startCall[k].cust] = 1
        /\ procs[1].state = "exited"
        /\ procs[1].exitHandler

\* C24: under a client that keeps polling getStatus, a row that is starting
\* does not stay starting for ever.
C24_PollingLeavesStarting ==
    (devServers["c1"].status = "starting") ~> (devServers["c1"].status # "starting")

\* C28: every start call returns or throws, and the in-flight marker of its
\* customer is released, whatever the install subprocess and the preview
\* process do.
C28_StartReturns ==
    /\ \A k \in StartIds : Active(k) ~> ~Active(k)
    /\ ("c1" \in startingCustomers) ~> ("c1" \notin startingCustomers)

\* C25: when the exit event of the process recorded in the row of its
\* customer is delivered, the handle of the customer is cleared, the pid of
\* the row is cleared, and the row becomes error if the exit code is abnormal
\* and stopped otherwise; whenever after the spawn the process exits.
C25_ExitMarksStoppedOrError ==
    [][\A p \in Pids :
          (procs[p].state = "exited" /\ procs'[p].state = "dead"
              /\ devServers[procs[p].cust].pid = p)
          => /\ runningProcesses'[procs[p].cust] = NoPid
             /\ devServers'[procs[p].cust].pid = NoPid
             /\ devServers'[procs[p].cust].status
                    = IF Abnormal(ret'.code) THEN "error" ELSE "stopped"]_vars

\* the rows a sweep that begins in this step selects
SelectedNow == IF sweep'.pc = "kill" THEN sweep'.selected ELSE ret'.swept

\* C26: a status poll that returns running and a start that returns
\* already_running leave lastActivity of the customer's row at the time of
\* the call; and a sweep that begins right after such a call, at the same
\* time, does not select that customer.
C26_InteractionResetsIdleClock ==
    [][/\ (ret'.op = "getStatus" /\ ret'.status = "running")
            => devServers'[ret'.cust].lastActivity = now
       /\ (ret'.op = "start" /\ ret'.result = "already_running")
            => devServers'[ret'.cust].lastActivity = now
       /\ (/\ ret.op = "getStatus" /\ ret.status = "running"
           /\ sweep.pc = "idle"
           /\ sweep'.pc = "kill" \/ ret'.op = "cleanupInactive")
            => ret.cust \notin SelectedNow]_vars

\* this step ends turn k, the agent having reported `outcome`, and no
\* database insert throws in it
TurnEnds(k, outcome) ==
    \/ SendMessageEnd(k, outcome, TRUE, TRUE)
    \/ SendMessageStreamEnd(k, outcome, TRUE, TRUE)
    \/ outcome.agentHadError /\ SendMessageStreamError(k)

\* what the triage policy says of turn k when the agent reports `outcome`
TurnDecision(k, outcome) ==
    evaluate([request |-> chatCall[k].content,
              filesModified |-> outcome.filesModified,
              agentCompletedSuccessfully |-> outcome.agentCompletedSuccessfully,
              agentHadError |-> outcome.agentHadError],
             lastIndex).result.decision

\* this step stores a flagged assistant message, a review request that refers
\* to it, and sends the notification of turn k
TurnQueued(k) ==
    /\ \E m \in MsgIds :
          /\ messages[m].role = "none"
          /\ messages'[m] = [role |-> "assistant", flagged |-> TRUE]
          /\ \E r \in ReviewIds :
                /\ reviewRequests[r].status = "none"
                /\ reviewRequests'[r].status = "open"
                /\ reviewRequests'[r].assistantMessageId = m
    /\ chatCall[k].msgId \in notifications'

\* C27: every agent turn whose triage decision is flag, and in which no
\* database insert throws, ends with the assistant's response stored as
\* flagged, a review request recorded for it and the flagged-request
\* notification sent, in the buffered path and in the streaming path alike; a
\* turn whose agent stream yields an error event is such a turn.
C27_FlaggedTurnIsQueued ==
    [][\A k \in TurnIds, outcome \in AgentOutcomes :
          (TurnEnds(k, outcome) /\ TurnDecision(k, outcome) = "flag")
          => TurnQueued(k)]_vars

StartNext ==
    \/ \E k \in StartIds : StartCheckRunning(k)
    \/ \E k \in StartIds : StartAllocPort(k)
    \/ \E k \in StartIds : StartDevtools(k)
    \/ \E k \in StartIds : StartInstallDone(k)
    \/ \E k \in StartIds : StartPoll(k)

ProcNext ==
    \/ \E p \in Pids : ProcListen(p)
    \/ \E p \in Pids : ProcDie(p)
    \/ \E p \in Pids : ProcExit(p)

\* The calls of the customer with the fixed port in every interleaving, with
\* the cleanup timer, the clock, the customer's processes and a foreign
\* listener on the fixed port.  Rows, markers and handles are keyed by
\* customer, so another customer reaches this one only through the ports;
\* ExtListen stands for that.
Next ==
    \/ \E k \in StartIds : StartBegin(k, "c1")
    \/ StartRejected("c1")
    \/ GetStatusBegin("c1")
    \/ GetStatusEnd("c1")
    \/ StopBegin("c1")
    \/ StopKillDone("c1")
    \/ updateActivity("c1")
    \/ StartNext
    \/ cleanupInactive
    \/ SweepKillDone
    \/ ProcNext
    \/ ExtListen(getDevServerPortRange.start)
    \/ Tick(TickMinutes)

Spec == Init /\ [][Next]_vars

\* The start and stop calls of the customer with the fixed port in every
\* interleaving, with the customer's processes and a foreign listener on the
\* fixed port: the part of Next that reaches the in-flight marker and the port
\* allocation.
NextStarts ==
    \/ \E k \in StartIds : StartBegin(k, "c1")
    \/ StartRejected("c1")
    \/ StopBegin("c1")
    \/ StopKillDone("c1")
    \/ StartNext
    \/ ProcNext
    \/ ExtListen(getDevServerPortRange.start)

SpecStarts == Init /\ [][NextStarts]_vars

\* Two customers without fixed ports: their starts in every interleaving,
\* with their processes and a foreign listener on the first port of the range.
NextPorts ==
    \/ \E k \in StartIds, c \in Customers : StartBegin(k, c)
    \/ \E c \in Customers : StartRejected(c)
    \/ StartNext
    \/ ProcNext
    \/ ExtListen(getDevServerPortRange.start)

SpecPorts == InitPorts /\ [][NextPorts]_vars

\* Two customers whose previews are up (each the outcome of one start(), a
\* minute apart):
\* the cleanup timer, the clock, stops, status polls and process exits in
\* every interleaving.
InitSweep ==
    /\ customers = [c \in Customers |->
                        IF c = "c1" THEN getDevServerPortRange.start ELSE NoPort]
    /\ devServers = [c \in Customers |->
                        [status |-> "running",
                         pid |-> IF c = "c1" THEN 1 ELSE 2,
                         port |-> IF c = "c1" THEN getDevServerPortRange.start
                                  ELSE getDevServerPortRange.start + 1,
                         lastActivity |-> IF c = "c1" THEN 0 ELSE 1]]
    /\ runningProcesses = [c \in Customers |-> IF c = "c1" THEN 1 ELSE 2]
    /\ startingCustomers = {}
    /\ procs = [p \in Pids |->
                   IF p = 1
                   THEN [state |-> "alive", cust |-> "c1",
                         port |-> getDevServerPortRange.start,
                         listening |-> TRUE, exitHandler |-> TRUE]
                   ELSE IF p = 2
                   THEN [state |-> "alive", cust |-> "c2",
                         port |-> getDevServerPortRange.start + 1,
                         listening |-> TRUE, exitHandler |-> TRUE]
                   ELSE Unborn]
    /\ extListen = {}
    /\ startCall = [k \in StartIds |-> IdleStart]
    /\ gsCall = [c \in Customers |-> IdleGs]
    /\ stopCall = [c \in Customers |-> IdleStop]
    /\ sweep = IdleSweep
    /\ now = 1
    /\ ret = NoRet
    /\ OthersIdle

NextSweep ==
    \/ cleanupInactive
    \/ SweepKillDone
    \/ Tick(TickMinutes)
    \/ Tick(IdleTimeoutMinutes)
    \/ \E c \in Customers : updateActivity(c)
    \/ \E c \in Customers : StopBegin(c)
    \/ \E c \in Customers : StopKillDone(c)
    \/ \E c \in Customers : GetStatusBegin(c)
    \/ \E c \in Customers : GetStatusEnd(c)
    \/ \E p \in Pids : ProcDie(p)
    \/ \E p \in Pids : ProcExit(p)

SpecSweep == InitSweep /\ [][NextSweep]_vars

\* request triage: any input, evaluated, other inputs evaluated in between,
\* evaluated again
InitTriage ==
    /\ DevIdle
    /\ lastIndex = FreshLastIndex
    /\ triageInput \in Inputs
    /\ triagePhase = "none"
    /\ triageFirst = NoResult
    /\ triageResult = NoResult
    /\ ChatIdle
    /\ GitIdle

NextTriage ==
    \/ Evaluate
    \/ \E other \in OtherInputs : EvaluateOther(other)

SpecTriage == InitTriage /\ [][NextTriage]_vars

\* chat and review queue: customers chat, the agent answers, the admin
\* quotes and sets statuses, customers approve
InitReviews == DevIdle /\ TriageIdle /\ ChatIdle /\ GitIdle

NextReviews ==
    \/ \E k \in TurnIds, c \in Customers, content \in ChatRequests,
          sessionOk \in BOOLEAN : SendMessageBegin(k, c, content, sessionOk)
    \/ \E k \in TurnIds, outcome \in AgentOutcomes,
          responseOk \in BOOLEAN, reviewOk \in BOOLEAN :
           SendMessageEnd(k, outcome, responseOk, reviewOk)
    \/ \E id \in ReviewIds, price \in PriceInputs : Quote(id, price)
    \/ \E id \in ReviewIds, status \in allowedStatuses \cup {"bogus"} :
           SetStatus(id, status)
    \/ \E c \in Customers, id \in ReviewIds : Approve(c, id)

SpecReviews == InitReviews /\ [][NextReviews]_vars

\* review queue alone: one flagged turn of c1 behind us, the admin quotes
\* and sets statuses, customers approve
InitQuotes ==
    /\ DevIdle
    /\ TriageIdle
    /\ messages = [m \in MsgIds |->
                      IF m = 1 THEN [role |-> "customer", flagged |-> FALSE]
                      ELSE IF m = 2 THEN [role |-> "assistant", flagged |-> TRUE]
                      ELSE NoMessage]
    /\ reviewRequests = [r \in ReviewIds |->
                            IF r = 1
                            THEN [NoReview EXCEPT !.status = "open",
                                                  !.customerId = "c1",
                                                  !.assistantMessageId = 2,
                                                  !.decision = "flag"]
                            ELSE NoReview]
    /\ chatCall = [k \in TurnIds |-> IF k = 1 THEN DoneChat ELSE IdleChat]
    /\ reply = Reply("sendMessage", 2, 200, "-")
    /\ notifications = {1}
    /\ GitIdle

NextQuotes ==
    \/ \E id \in ReviewIds, price \in PriceInputs : Quote(id, price)
    \/ \E id \in ReviewIds, status \in allowedStatuses \cup {"bogus"} :
           SetStatus(id, status)
    \/ \E c \in Customers, id \in ReviewIds : Approve(c, id)

SpecQuotes == InitQuotes /\ [][NextQuotes]_vars

\* publish and rollback: the agent edits the site, publish and rollback
\* calls run their git commands in every interleaving
InitPublish == DevIdle /\ TriageIdle /\ ChatIdle /\ GitIdle

NextPublish ==
    \/ \E tree \in Trees : AgentEdit(tree)
    \/ \E k \in GitIds : PublishStatus(k)
    \/ \E k \in GitIds, ok \in BOOLEAN : PublishAdd(k, ok)
    \/ \E k \in GitIds, ok \in BOOLEAN : PublishCommit(k, ok)
    \/ \E k \in GitIds : PublishRevParse(k)
    \/ \E k \in GitIds, ok \in BOOLEAN : PublishPush(k, ok)
    \/ \E k \in GitIds, target \in Targets : RollbackStatus(k, target)
    \/ \E k \in GitIds : RollbackVerify(k)
    \/ \E k \in GitIds : RollbackCurrent(k)
    \/ \E k \in GitIds, ok \in BOOLEAN : RollbackRestore(k, ok)
    \/ \E k \in GitIds : RollbackStaged(k)
    \/ \E k \in GitIds, ok \in BOOLEAN : RollbackCommit(k, ok)
    \/ \E k \in GitIds : RollbackRevParse(k)
    \/ \E k \in GitIds, ok \in BOOLEAN : RollbackPush(k, ok)

SpecPublish == InitPublish /\ [][NextPublish]_vars

\* The start calls and the status polls of the customer with the fixed port,
\* with the customer's processes.
NextLive ==
    \/ \E k \in StartIds : StartBegin(k, "c1")
    \/ StartRejected("c1")
    \/ GetStatusBegin("c1")
    \/ GetStatusEnd("c1")
    \/ StartNext
    \/ ProcNext

\* What the code's timers guarantee.  A port probe answers within its socket
\* timeout (lines 486-506), the two port scans are local, and the readiness
\* wait gives up after 20 s (508-521): these steps of start come.  The
\* install step (777-821) waits for the exit or error event of the install
\* subprocess with no timer, and nothing makes a preview process open its
\* port or exit: no fairness for them.  The client keeps polling, and the
\* exit event of a process that has died is delivered.
LiveFairness ==
    /\ WF_vars(\E k \in StartIds : StartCheckRunning(k))
    /\ WF_vars(\E k \in StartIds : StartAllocPort(k))
    /\ WF_vars(\E k \in StartIds : StartDevtools(k))
    /\ WF_vars(\E k \in StartIds : StartPoll(k))
    /\ WF_vars(GetStatusBegin("c1"))
    /\ WF_vars(GetStatusEnd("c1"))
    /\ WF_vars(\E p \in Pids : ProcExit(p))

SpecLive == Init /\ [][NextLive]_vars /\ LiveFairness

\* chat turns alone, sent over the buffered route and over the SSE route
NextTurns ==
    \/ \E k \in TurnIds, c \in Customers, content \in ChatRequests,
          sessionOk \in BOOLEAN : SendMessageBegin(k, c, content, sessionOk)
    \/ \E k \in TurnIds, outcome \in AgentOutcomes,
          responseOk \in BOOLEAN, reviewOk \in BOOLEAN :
           SendMessageEnd(k, outcome, responseOk, reviewOk)
    \/ \E k \in TurnIds, c \in Customers, content \in ChatRequests,
          sessionOk \in BOOLEAN :
           SendMessageStreamBegin(k, c, content, sessionOk)
    \/ \E k \in TurnIds : SendMessageStreamError(k)
    \/ \E k \in TurnIds, outcome \in AgentOutcomes,
          responseOk \in BOOLEAN, reviewOk \in BOOLEAN :
           SendMessageStreamEnd(k, outcome, responseOk, reviewOk)

SpecTurns == InitReviews /\ [][NextTurns]_vars

====
